---- MODULE Spec2Model ----
(***************************************************************************)
(* Model of monocypher-cpp, the C++ wrapper around Monocypher:             *)
(*   - constant_time_compare and the byte_array comparison operators       *)
(*     (src/src/Monocypher.cc, src/include/monocypher/base.hh)             *)
(*   - session::encryption_key, encrypted_writer, encrypted_reader         *)
(*     (src/include/monocypher/encryption.hh)                              *)
(*   - XSalsa20_Poly1305 (src/src/Monocypher+xsalsa20.cc)                  *)
(*   - secret_byte_array and its destructor (base.hh)                      *)
(* The vendored primitives (crypto_verify*, crypto_aead_*, crypto_wipe,    *)
(* tweetnacl's secretbox) are modelled by their documented contracts.      *)
(***************************************************************************)
EXTENDS Integers, Sequences, FiniteSets, TLC

VARIABLES
    pc,         \* position of the calling program
    ndebug,     \* TRUE in a build with NDEBUG (assert compiled out)
    alg,        \* the Algorithm template argument of encryption_key
    mem,        \* the caller's memory: address -> cell
    key,        \* the encryption_key object (32 bytes)
    nonce,      \* the nonce the caller uses (24 bytes)
    plain,      \* the plaintext the caller started with / wrote last (for reference)
    sealed,     \* what lock / box / write produced: mac, ciphertext, where, with which ad
    call,       \* the arguments of the last call
    ret,        \* the value the last call returned
    writer,     \* the encrypted_writer object: its _context, and whether it is alive
    reader,     \* the encrypted_reader object: its _context, and whether it is alive
    wire,       \* the chunks the writer produced, in order
    nread,      \* the number of chunks the reader has accepted
    secret,     \* a secret_byte_array object: its bytes, and whether it is alive
    cmpA,       \* comparison: the bytes at pointer a
    cmpB,       \* comparison: the bytes at pointer b
    cmpSize,    \* comparison: the size argument
    cmpRet,     \* comparison: the boolean result
    cmpTrace,   \* comparison: the primitive block comparisons executed, in order
    hdr,        \* which header the caller includes: Monocypher.hh or monocypher/*.hh
    nonceArg,   \* nonce: the uint64_t argument of the last call, in 16-bit limbs
    nonceObj,   \* nonce: the 24 bytes of the session::nonce object
    nonceOld,   \* nonce: its bytes before the last call
    nonceRet,   \* nonce: what the last operator returned
    nincr,      \* nonce: the number of increments so far
    hashAlg,    \* hash: the HashAlgorithm template argument
    hashKey,    \* hash: the key given to mac_builder
    hashBuilder,\* hash: the builder object: its _ctx, keyed or not, how construction ended
    hashFed,    \* hash: the pieces passed to update so far, in order
    hashOut,    \* hash: the hash final() returned
    kxAlg,      \* key exchange: the Algorithm template argument
    kxSecret,   \* key exchange: each party's key_exchange object (_secret_key)
    kxInitial,  \* key exchange: the secret key each object was constructed with
    kxPublic,   \* key exchange: the public key each party published
    kxShared,   \* key exchange: the shared secret each party computed
    kxGot,      \* key exchange: what get_secret_key returned to each party
    sigAlg,     \* signatures: the Algorithm template argument
    sigPair,    \* signatures: the 64 bytes of the key_pair object
    sigMsg,     \* signatures: the message that was signed
    sigSig,     \* signatures: the signature sign returned
    sigCheck,   \* signatures: the signature handed to check, and what the checks returned
    sigSeed,    \* signatures: the seed a pair was made from, and what the seed's own calls returned
    argonTemplate, \* argon2: the template parameters
    exceptions, \* argon2: TRUE in a build with exceptions enabled
    argonCalls, \* argon2: the calls of create so far: arguments, allocation, outcome
    rand        \* randomize: the build, the size, the pointer i and the memory

cmpVars == <<cmpA, cmpB, cmpSize, cmpRet, cmpTrace>>
sessVars == <<ndebug, alg, mem, key, nonce, plain, sealed, call, ret>>
streamVars == <<writer, reader, wire, nread>>
objVars == <<secret>>
nonceVars == <<nonceArg, nonceObj, nonceOld, nonceRet, nincr>>
hashVars == <<hashAlg, hashKey, hashBuilder, hashFed, hashOut>>
kxVars == <<kxAlg, kxSecret, kxInitial, kxPublic, kxShared, kxGot>>
sigVars == <<sigAlg, sigPair, sigMsg, sigSig, sigCheck, sigSeed>>
argonVars == <<argonTemplate, exceptions, argonCalls>>
randVars == <<rand>>
valVars == <<hdr, nonceVars, hashVars, kxVars, sigVars, argonVars, randVars>>
vars == <<pc, cmpVars, sessVars, streamVars, objVars, valVars>>

(***************************************************************************)
(* Bounds of the model.                                                    *)
(***************************************************************************)
MaxCmpSize == 118   \* largest size handed to constant_time_compare
CmpSlack == 2       \* bytes of each buffer that lie beyond `size`

(***************************************************************************)
(* Generic helpers.                                                        *)
(***************************************************************************)
Min(x, y) == IF x <= y THEN x ELSE y
Max(x, y) == IF x >= y THEN x ELSE y

(***************************************************************************)
(* Comparison.                                                             *)
(***************************************************************************)

\* crypto_verify16/32/64(a+off, b+off): 0 when the n bytes are equal, else -1.
crypto_verify(a, b, off, n) ==
    IF \A k \in 1..n : a[off + k] = b[off + k] THEN 0 ELSE -1

\* One `while (i + blk <= size)` loop of constant_time_compare.  Returns the
\* index reached, whether the function returned false inside the loop, and
\* the comparisons executed.
RECURSIVE CmpLoop(_, _, _, _, _, _)
CmpLoop(a, b, size, i, blk, trace) ==
    IF i + blk <= size
    THEN IF 0 # crypto_verify(a, b, i, blk)
         THEN [returned |-> TRUE, i |-> i, trace |-> Append(trace, <<blk, i>>)]
         ELSE CmpLoop(a, b, size, i + blk, blk, Append(trace, <<blk, i>>))
    ELSE [returned |-> FALSE, i |-> i, trace |-> trace]

\* A 16-byte stack buffer {} with the first `size` bytes of a copied in.
ZeroPadded(a, size) == [k \in 1..16 |-> IF k <= size THEN a[k] ELSE 0]

\* The `if (i < size)` tail of constant_time_compare (CmpTailNoRemainder is
\* the function without it: the bytes after the last whole block unchecked).
CmpTailNoRemainder(a, b, size, i, trace) == [ret |-> TRUE, trace |-> trace]
CmpTail(a, b, size, i, trace) ==
    IF i < size
    THEN IF size >= 16
         THEN [ret   |-> 0 = crypto_verify(a, b, size - 16, 16),
               trace |-> Append(trace, <<16, size - 16>>)]
         ELSE [ret   |-> 0 = crypto_verify(ZeroPadded(a, size), ZeroPadded(b, size), 0, 16),
               trace |-> Append(trace, <<16, 0>>)]
    ELSE [ret |-> TRUE, trace |-> trace]

\* constant_time_compare(xa, xb, size): the result and the comparisons run.
constant_time_compare(a, b, size) ==
    LET l64 == CmpLoop(a, b, size, 0, 64, <<>>) IN
    IF l64.returned THEN [ret |-> FALSE, trace |-> l64.trace] ELSE
    LET l32 == CmpLoop(a, b, size, l64.i, 32, l64.trace) IN
    IF l32.returned THEN [ret |-> FALSE, trace |-> l32.trace] ELSE
    LET l16 == CmpLoop(a, b, size, l32.i, 16, l32.trace) IN
    IF l16.returned THEN [ret |-> FALSE, trace |-> l16.trace] ELSE
    CmpTail(a, b, size, l16.i, l16.trace)

\* The byte_array sizes for which operator== is specialised, and the sizes
\* (multiples of 16) the generic template accepts.
SpecialisedSizes == {16, 24, 32, 64}
GenericSizes == {s \in 1..(MaxCmpSize + CmpSlack) : s % 16 = 0} \ SpecialisedSizes

\* operator==(byte_array<Size>, byte_array<Size>).  `&&` evaluates its right
\* operand only when the left one is true.
ArrayEq(a, b, Size) ==
    IF Size = 16 THEN [ret |-> 0 = crypto_verify(a, b, 0, 16), trace |-> <<<<16, 0>>>>]
    ELSE IF Size = 24
    THEN IF 0 = crypto_verify(a, b, 0, 16)
         THEN [ret   |-> 0 = crypto_verify(a, b, 8, 16),
               trace |-> <<<<16, 0>>, <<16, 8>>>>]
         ELSE [ret |-> FALSE, trace |-> <<<<16, 0>>>>]
    ELSE IF Size = 32 THEN [ret |-> 0 = crypto_verify(a, b, 0, 32), trace |-> <<<<32, 0>>>>]
    ELSE IF Size = 64 THEN [ret |-> 0 = crypto_verify(a, b, 0, 64), trace |-> <<<<64, 0>>>>]
    ELSE constant_time_compare(a, b, Size)

\* operator!=
ArrayNe(a, b, Size) ==
    LET e == ArrayEq(a, b, Size) IN [ret |-> ~e.ret, trace |-> e.trace]

(***************************************************************************)
(* Memory.  An address is a number 1..MemSize, 0 is the null pointer.  A    *)
(* cell holds either a byte, <<b>>, or one byte of a Poly1305 tag, which   *)
(* is kept as the term it was computed from (see lock_auth).               *)
(***************************************************************************)
MacSize == 16       \* sizeof(mac)
KeySize == 32       \* sizeof(encryption_key)
NonceSize == 24     \* sizeof(nonce)
StreamNonceSize == 8 \* sizeof(crypto_aead_ctx::nonce)
SecretboxPad == 32  \* crypto_secretbox_ZEROBYTES
MaxLen == 3         \* longest plaintext of the model
FillerCell == <<170>> \* a byte of memory the caller did not initialise

NULL == 0
LimbBase == 65536
ByteCell(b) == <<b>>
IsByte(c) == Len(c) = 1
ZeroCells(n) == [k \in 1..n |-> ByteCell(0)]

ReadCells(m, p, n) == [k \in 1..n |-> m[p + k - 1]]
WriteCells(m, p, cells) ==
    [a \in DOMAIN m |-> IF a >= p /\ a < p + Len(cells) THEN cells[a - p + 1] ELSE m[a]]
\* (memmove_forward: the bytes copied one by one from the first, reading
\* what it has just written when dst lies inside the source.)
memmove_forward(m, dst, src, n) ==
    WriteCells(m, dst, [k \in 1..n |-> IF dst > src /\ dst < src + n
                                       THEN m[src + ((k - 1) % (dst - src))]
                                       ELSE m[src + k - 1]])
memmove(m, dst, src, n) == WriteCells(m, dst, ReadCells(m, src, n))
memcpy(m, dst, cells) == WriteCells(m, dst, cells)

RECURSIVE XorBits(_, _, _)
XorBits(a, b, bits) ==
    IF bits = 0 THEN 0
    ELSE ((a + b) % 2) + 2 * XorBits(a \div 2, b \div 2, bits - 1)
\* c ^ k on a cell.  A tag byte that is run through the cipher stays a term.
XorCell(c, k) == IF IsByte(c) THEN ByteCell(XorBits(c[1], k, 8)) ELSE c \o <<k>>

RECURSIVE Digest(_, _)
Digest(s, k) == IF k = 0 THEN 0 ELSE (Digest(s, k - 1) + (2 * k + 1) * s[k]) % 256

RECURSIVE Flatten(_, _)
Flatten(cells, k) == IF k = 0 THEN <<>> ELSE Flatten(cells, k - 1) \o <<Len(cells[k])>> \o cells[k]

(***************************************************************************)
(* The vendored Monocypher primitives behind XChaCha20_Poly1305.           *)
(***************************************************************************)
ChaChaTag == 1
SalsaTag == 2

\* The ChaCha20 key stream for (key, nonce, counter): byte k of `size`.
chacha20_stream(k, n, ctr, size) ==
    LET d == (7 * Digest(k, Len(k)) + 13 * Digest(n, Len(n)) + 101 * ctr + 5) % 256
    IN  [x \in 1..size |-> (d + 31 * x) % 256]

\* crypto_chacha20_djb(dst, src, size, ...) with the key stream ks: byte i of
\* the input is read, then byte i of the output written, for i = 0, 1, ...  So
\* when dst lies d bytes after src inside the input, the byte read at i >= d
\* is the one written at i - d.
StreamXor(m, dst, src, size, ks) ==
    LET d == dst - src
        out[i \in 0..(size - 1)] ==
            XorCell(IF d > 0 /\ i >= d THEN out[i - d] ELSE m[src + i], ks[i + 1])
    IN  [a \in DOMAIN m |-> IF a >= dst /\ a < dst + size THEN out[a - dst] ELSE m[a]]

\* crypto_chacha20_h: the subkey of XChaCha20, from the key and nonce[0..15].
crypto_chacha20_h(k, n) ==
    [x \in 1..KeySize |-> (k[x] + 3 * n[((x - 1) % 16) + 1] + x) % 256]

\* crypto_aead_init_x
crypto_aead_init_x(k, n) ==
    [counter |-> 0,
     key     |-> crypto_chacha20_h(k, n),
     nonce   |-> SubSeq(n, NonceSize - StreamNonceSize + 1, NonceSize)]

\* The second half of the block crypto_aead_write / _read derive from the
\* context: the key of the next chunk.
NextChunkKey(ctx) ==
    [x \in 1..KeySize |->
        (5 * ctx.key[x] + 2 * Digest(ctx.nonce, Len(ctx.nonce)) + 2 * x + 1) % 256]

\* lock_auth: the Poly1305 tag over (ad, ciphertext) under the one-time key
\* derived from the context.  An ideal MAC: byte j of the tag is the term
\* <<j, everything the tag depends on>>, so two tags are equal exactly when
\* they were computed from the same key, nonce, ad and ciphertext.
lock_auth(ctx, ad, ct) ==
    LET term == <<ChaChaTag>> \o ctx.key \o ctx.nonce \o <<ctx.counter, Len(ad)>> \o ad
                    \o <<Len(ct)>> \o Flatten(ct, Len(ct))
    IN  [j \in 1..MacSize |-> <<j>> \o term]

\* crypto_aead_write(ctx, cipher_text, mac, ad, ad_size, plain_text, text_size)
crypto_aead_write(ctx, m, cipher_text, ad, plain_text, text_size) ==
    LET ks == chacha20_stream(ctx.key, ctx.nonce, ctx.counter + 1, text_size)
        m2 == StreamXor(m, cipher_text, plain_text, text_size, ks)
    IN  [mem |-> m2,
         mac |-> lock_auth(ctx, ad, ReadCells(m2, cipher_text, text_size)),
         ctx |-> [ctx EXCEPT !.key = NextChunkKey(ctx)]]

\* crypto_aead_read(ctx, plain_text, mac, ad, ad_size, cipher_text, text_size)
crypto_aead_read(ctx, m, plain_text, mac, ad, cipher_text, text_size) ==
    LET real_mac == lock_auth(ctx, ad, ReadCells(m, cipher_text, text_size))
        mismatch == crypto_verify(mac, real_mac, 0, MacSize)
        ks == chacha20_stream(ctx.key, ctx.nonce, ctx.counter + 1, text_size)
    IN  IF mismatch = 0
        THEN [ret |-> 0,
              mem |-> StreamXor(m, plain_text, cipher_text, text_size, ks),
              ctx |-> [ctx EXCEPT !.key = NextChunkKey(ctx)]]
        ELSE [ret |-> mismatch, mem |-> m, ctx |-> ctx]

\* crypto_aead_lock(cipher_text, mac, key, nonce, ad, ad_size, plain_text, text_size)
crypto_aead_lock(m, cipher_text, k, n, ad, plain_text, text_size) ==
    LET w == crypto_aead_write(crypto_aead_init_x(k, n), m, cipher_text, ad,
                               plain_text, text_size)
    IN  [aborted |-> FALSE, mem |-> w.mem, mac |-> w.mac]

\* crypto_aead_unlock(plain_text, mac, key, nonce, ad, ad_size, cipher_text, text_size)
crypto_aead_unlock(m, plain_text, mac, k, n, ad, cipher_text, text_size) ==
    LET r == crypto_aead_read(crypto_aead_init_x(k, n), m, plain_text, mac, ad,
                              cipher_text, text_size)
    IN  [aborted |-> FALSE, mem |-> r.mem, ret |-> r.ret]

(***************************************************************************)
(* tweetnacl's secretbox, on buffers held as sequences of cells, and the   *)
(* XSalsa20_Poly1305 algorithm built on it.                                *)
(***************************************************************************)
xsalsa20_stream(k, n, size) ==
    LET d == (11 * Digest(k, Len(k)) + 17 * Digest(n, Len(n)) + 3) % 256
    IN  [x \in 1..size |-> (d + 23 * x) % 256]

\* crypto_stream_xor(c, m, d, n, k)
crypto_stream_xor(msg, d, n, k) ==
    LET ks == xsalsa20_stream(k, n, d) IN [x \in 1..d |-> XorCell(msg[x], ks[x])]

\* crypto_onetimeauth(out, m, n, k): the Poly1305 tag of m under the one-time
\* key `otk` (the first 32 bytes of the key stream of (k, n)); an ideal MAC,
\* as lock_auth.
crypto_onetimeauth(msg, otk, n, k) ==
    LET term == <<SalsaTag>> \o k \o n \o Flatten(otk, Len(otk)) \o <<Len(msg)>>
                    \o Flatten(msg, Len(msg))
    IN  [j \in 1..MacSize |-> <<j>> \o term]

\* crypto_secretbox_xsalsa20poly1305_tweet(c, m, d, n, k)
crypto_secretbox(msg, d, n, k) ==
    IF d < SecretboxPad THEN [ret |-> -1, c |-> <<>>]
    ELSE LET c1  == crypto_stream_xor(msg, d, n, k)
             tag == crypto_onetimeauth(SubSeq(c1, SecretboxPad + 1, d),
                                       SubSeq(c1, 1, SecretboxPad), n, k)
         IN  [ret |-> 0,
              c   |-> [x \in 1..d |-> IF x <= 16 THEN ByteCell(0)
                                      ELSE IF x <= SecretboxPad THEN tag[x - 16]
                                      ELSE c1[x]]]

\* crypto_secretbox_xsalsa20poly1305_tweet_open(m, c, d, n, k)
crypto_secretbox_open(c, d, n, k) ==
    IF d < SecretboxPad THEN [ret |-> -1, m |-> <<>>]
    ELSE LET x   == [y \in 1..SecretboxPad |-> ByteCell(xsalsa20_stream(k, n, SecretboxPad)[y])]
             tag == crypto_onetimeauth(SubSeq(c, SecretboxPad + 1, d), x, n, k)
         IN  IF crypto_verify(SubSeq(c, 17, SecretboxPad), tag, 0, MacSize) # 0
             THEN [ret |-> -1, m |-> <<>>]
             ELSE LET m1 == crypto_stream_xor(c, d, n, k)
                  IN  [ret |-> 0,
                       m   |-> [y \in 1..d |-> IF y <= SecretboxPad THEN ByteCell(0) ELSE m1[y]]]

\* XSalsa20_Poly1305::lock(out, mac, key, nonce, ad, ad_size, plaintext, size)
\* (XSalsa20_Poly1305_lock_mac_at_0: the mac copied from &outBuffer[0].)
XSalsa20_Poly1305_lock_mac_at_0(nd, m, out, k, n, ad, plaintext, size) ==
    IF ~nd /\ Len(ad) # 0
    THEN [aborted |-> TRUE, mem |-> m, mac |-> <<>>]
    ELSE LET inBuffer  == ZeroCells(SecretboxPad) \o ReadCells(m, plaintext, size)
             outBuffer == crypto_secretbox(inBuffer, size + 32, n, k).c
         IN  [aborted |-> FALSE,
              mem     |-> memcpy(m, out, SubSeq(outBuffer, 33, 32 + size)),
              mac     |-> SubSeq(outBuffer, 1, 16)]
XSalsa20_Poly1305_lock(nd, m, out, k, n, ad, plaintext, size) ==
    IF ~nd /\ Len(ad) # 0
    THEN [aborted |-> TRUE, mem |-> m, mac |-> <<>>]
    ELSE LET inBuffer  == ZeroCells(SecretboxPad) \o ReadCells(m, plaintext, size)
             outBuffer == crypto_secretbox(inBuffer, size + 32, n, k).c
         IN  [aborted |-> FALSE,
              mem     |-> memcpy(m, out, SubSeq(outBuffer, 33, 32 + size)),
              mac     |-> SubSeq(outBuffer, 17, 32)]

\* XSalsa20_Poly1305::unlock(out, mac, key, nonce, ad, ad_size, ciphertext, size)
\* (XSalsa20_Poly1305_unlock_noassert: the same without assert(ad_size == 0).)
XSalsa20_Poly1305_unlock_noassert(nd, m, out, mac, k, n, ad, ciphertext, size) ==
    LET inBuffer == ZeroCells(16) \o mac \o ReadCells(m, ciphertext, size)
        opened   == crypto_secretbox_open(inBuffer, size + 32, n, k)
    IN  IF 0 # opened.ret
        THEN [aborted |-> FALSE, mem |-> m, ret |-> -1]
        ELSE [aborted |-> FALSE,
              mem     |-> memcpy(m, out, SubSeq(opened.m, 33, 32 + size)),
              ret     |-> 0]
XSalsa20_Poly1305_unlock(nd, m, out, mac, k, n, ad, ciphertext, size) ==
    IF ~nd /\ Len(ad) # 0
    THEN [aborted |-> TRUE, mem |-> m, ret |-> -1]
    ELSE LET inBuffer == ZeroCells(16) \o mac \o ReadCells(m, ciphertext, size)
             opened   == crypto_secretbox_open(inBuffer, size + 32, n, k)
         IN  IF 0 # opened.ret
             THEN [aborted |-> FALSE, mem |-> m, ret |-> -1]
             ELSE [aborted |-> FALSE,
                   mem     |-> memcpy(m, out, SubSeq(opened.m, 33, 32 + size)),
                   ret     |-> 0]

(***************************************************************************)
(* session::encryption_key<Algorithm>                                      *)
(***************************************************************************)
Algorithms == {"XChaCha20_Poly1305", "XSalsa20_Poly1305"}

\* Algorithm::lock
Algorithm_lock(a, nd, m, cipher_text, k, n, ad, plain_text, text_size) ==
    IF a = "XChaCha20_Poly1305"
    THEN crypto_aead_lock(m, cipher_text, k, n, ad, plain_text, text_size)
    ELSE XSalsa20_Poly1305_lock(nd, m, cipher_text, k, n, ad, plain_text, text_size)

\* Algorithm::unlock
Algorithm_unlock(a, nd, m, plain_text, mac, k, n, ad, cipher_text, text_size) ==
    IF a = "XChaCha20_Poly1305"
    THEN crypto_aead_unlock(m, plain_text, mac, k, n, ad, cipher_text, text_size)
    ELSE XSalsa20_Poly1305_unlock(nd, m, plain_text, mac, k, n, ad, cipher_text, text_size)

\* fixOverlap(src, dst): when [src, src+size) and [dst, dst+size) overlap without
\* being identical, move the input to dst and let src point there.
fixOverlapNever(m, src, size, dst) == [mem |-> m, src |-> src]
fixOverlap(m, src, size, dst) ==
    IF (src > dst /\ src < dst + size) \/ (src < dst /\ src + size > dst)
    THEN [mem |-> memmove(m, dst, src, size), src |-> dst]
    ELSE [mem |-> m, src |-> src]

\* encryption_key::lock(nonce, plain_text, additional_data, cipher_text)
lock(a, nd, m, k, n, plain_text, text_size, ad, cipher_text) ==
    LET f == fixOverlap(m, plain_text, text_size, cipher_text)
    IN  Algorithm_lock(a, nd, f.mem, cipher_text, k, n, ad, f.src, text_size)

\* encryption_key::unlock(nonce, in_mac, cipher_text, additional_data, plain_text)
\* in_mac is passed by value.
\* (unlockIgnoringResult: the same with the result of Algorithm::unlock dropped.)
unlockIgnoringResult(a, nd, m, k, n, in_mac, cipher_text, text_size, ad, plain_text) ==
    LET f == fixOverlap(m, cipher_text, text_size, plain_text)
        r == Algorithm_unlock(a, nd, f.mem, plain_text, in_mac, k, n, ad, f.src, text_size)
    IN  [aborted |-> r.aborted, mem |-> r.mem, ret |-> TRUE]
unlock(a, nd, m, k, n, in_mac, cipher_text, text_size, ad, plain_text) ==
    LET f == fixOverlap(m, cipher_text, text_size, plain_text)
        r == Algorithm_unlock(a, nd, f.mem, plain_text, in_mac, k, n, ad, f.src, text_size)
    IN  [aborted |-> r.aborted, mem |-> r.mem, ret |-> (0 = r.ret)]

(***************************************************************************)
(* output_bytes and the "box" API.                                         *)
(***************************************************************************)
NullBytes == [data |-> NULL, size |-> 0]    \* output_bytes()

\* output_bytes::shrunk_to(s): the assertion exists in a debug build only.
shrunk_to(nd, ob, s) ==
    IF ~nd /\ ~(s <= ob.size)
    THEN [aborted |-> TRUE, out |-> NullBytes]
    ELSE [aborted |-> FALSE, out |-> [data |-> ob.data, size |-> s]]

\* (boxedSizeNoMac: the size of the plaintext alone.)
boxedSizeNoMac(plaintextSize) == plaintextSize
boxedSize(plaintextSize) == plaintextSize + MacSize
unboxedSize(ciphertextSize) == Max(ciphertextSize, MacSize) - MacSize

\* p + k for a `mac *` p: pointer arithmetic in units of sizeof(mac).
\* (BytePtrPlus: the same on a byte pointer.)
BytePtrPlus(p, k) == p + k
MacPtrPlus(p, k) == p + k * MacSize

\* What a callback of _box / _unbox is applied to.
Cells == Seq(Int)
BoxCallbackArgs == Int
UnboxCallbackArgs == [1..MacSize -> Cells] \X Int \X Int \X Int

\* The callback of _box / _unbox was not called, or did not return.
NotCalled == [aborted |-> TRUE]

\* _box(output_buffer, msg_size, cb) on memory m; cb[out] is the callback
\* `mac cb(uint8_t *out)` with its effects, which the result hands on as .cb.
_box(nd, m, output_buffer, msg_size, cb) ==
    LET sh    == shrunk_to(nd, output_buffer, boxedSize(msg_size))
        mac_p == sh.out.data
        r     == cb[MacPtrPlus(mac_p, 1)]
    IN  IF sh.aborted \/ r.aborted
        THEN [aborted |-> TRUE, mem |-> m, out |-> NullBytes, cb |-> NotCalled]
        ELSE [aborted |-> FALSE, mem |-> memcpy(r.mem, mac_p, r.mac), out |-> sh.out,
              cb |-> r]

\* _unbox(output_buffer, boxed_cipher_text, cb) on memory m; cb[mac, data,
\* size, out] is the callback `bool cb(mac const&, input_bytes, uint8_t *out)`
\* with its effects, which the result hands on as .cb.
\* (_unboxUnchecked: the same without the test of the input's size.)
_unboxUnchecked(nd, m, output_buffer, boxed_cipher_text, cb) ==
    LET sh    == shrunk_to(nd, output_buffer, unboxedSize(boxed_cipher_text.size))
        mac_p == boxed_cipher_text.data
        r     == cb[<<ReadCells(m, mac_p, MacSize), MacPtrPlus(mac_p, 1),
                      sh.out.size, sh.out.data>>]
    IN  IF sh.aborted \/ r.aborted
        THEN [aborted |-> TRUE, mem |-> m, out |-> NullBytes, cb |-> NotCalled]
        ELSE [aborted |-> FALSE, mem |-> r.mem, cb |-> r,
              out |-> IF r.ret THEN sh.out ELSE NullBytes]
_unbox(nd, m, output_buffer, boxed_cipher_text, cb) ==
    IF boxed_cipher_text.size < MacSize
    THEN [aborted |-> FALSE, mem |-> m, out |-> NullBytes, cb |-> NotCalled]
    ELSE LET sh    == shrunk_to(nd, output_buffer, unboxedSize(boxed_cipher_text.size))
             mac_p == boxed_cipher_text.data
             r     == cb[<<ReadCells(m, mac_p, MacSize), MacPtrPlus(mac_p, 1),
                           sh.out.size, sh.out.data>>]
         IN  IF sh.aborted \/ r.aborted
             THEN [aborted |-> TRUE, mem |-> m, out |-> NullBytes, cb |-> NotCalled]
             ELSE IF ~r.ret
             THEN [aborted |-> FALSE, mem |-> r.mem, out |-> NullBytes, cb |-> r]
             ELSE [aborted |-> FALSE, mem |-> r.mem, out |-> sh.out, cb |-> r]

\* encryption_key::box(nonce, plain_text, output_buffer)
box(a, nd, m, k, n, plain_text, text_size, output_buffer) ==
    _box(nd, m, output_buffer, text_size,
         [out \in BoxCallbackArgs |->
             lock(a, nd, m, k, n, plain_text, text_size, <<>>, out)])

\* encryption_key::unbox(nonce, boxed_cipher_text, output_buffer)
unbox(a, nd, m, k, n, boxed_cipher_text, output_buffer) ==
    _unbox(nd, m, output_buffer, boxed_cipher_text,
           [c \in UnboxCallbackArgs |->
               unlock(a, nd, m, k, n, c[1], c[2], c[3], <<>>, c[4])])

(***************************************************************************)
(* The calling program of the one-shot API: it owns a key, a nonce and a   *)
(* plaintext in memory; it locks or boxes the plaintext, and then unlocks  *)
(* or unboxes what it got, or a variation of it.                           *)
(***************************************************************************)
SrcAt == MacSize + 2                        \* where the plaintext lies
FarAt == SrcAt + MaxLen + 2                 \* a buffer past the plaintext
MemSize == FarAt + MacSize + MaxLen + 4

\* Two keys that differ in their last byte only, three nonces: the second
\* differs from the first in byte 0, the third in the last byte.
Keys == {[x \in 1..KeySize |-> IF x = KeySize THEN v ELSE x] : v \in {0, 1}}
Nonces == {[x \in 1..NonceSize |-> IF x = b THEN 200 ELSE 100 + x] : b \in {0, 1, NonceSize}}
FirstNonce == [x \in 1..NonceSize |-> 100 + x]
ADs == {<<>>, <<1>>, <<2>>, <<1, 1>>}
Plaintexts == {[x \in 1..len |-> ByteCell((60 * x + len) % 256)] : len \in 0..MaxLen}

\* Memory with the plaintext p at SrcAt and nothing else initialised.
InitMem(p) ==
    [a \in 1..MemSize |->
        IF a >= SrcAt /\ a < SrcAt + Len(p) THEN p[a - SrcAt + 1] ELSE FillerCell]

NoSealed == [op |-> "none", mac |-> <<>>, ct |-> <<>>, at |-> NULL, ad |-> <<>>,
             out |-> NullBytes]
NoCall == [op |-> "none", key |-> <<>>, nonce |-> <<>>, mac |-> <<>>, ct |-> <<>>,
           at |-> NULL, ad |-> <<>>, buf |-> NullBytes, idx |-> 0, pos |-> 0]
NoRet == [ok |-> FALSE, out |-> NullBytes]

SessInit ==
    /\ pc = "start"
    /\ ndebug \in BOOLEAN
    /\ alg \in Algorithms
    /\ key \in Keys
    /\ nonce = FirstNonce
    /\ plain \in Plaintexts
    /\ mem = InitMem(plain)
    /\ sealed = NoSealed
    /\ call = NoCall
    /\ ret = NoRet

SessIdle ==
    /\ ndebug = FALSE
    /\ alg = "XChaCha20_Poly1305"
    /\ mem = <<>>
    /\ key = <<>>
    /\ nonce = <<>>
    /\ plain = <<>>
    /\ sealed = NoSealed
    /\ call = NoCall
    /\ ret = NoRet

\* mac = key.lock(nonce, {SrcAt, n}, ad, dst)
Lock(ad, dst) ==
    /\ pc = "start"
    /\ \E r \in {lock(alg, ndebug, mem, key, nonce, SrcAt, Len(plain), ad, dst)} :
         IF r.aborted
         THEN /\ pc' = "aborted"
              /\ UNCHANGED <<mem, sealed>>
         ELSE /\ pc' = "locked"
              /\ mem' = r.mem
              /\ sealed' = [op |-> "lock", mac |-> r.mac,
                            ct |-> ReadCells(r.mem, dst, Len(plain)),
                            at |-> dst, ad |-> ad,
                            out |-> [data |-> dst, size |-> Len(plain)]]
    /\ call' = [NoCall EXCEPT !.op = "lock", !.ad = ad, !.at = SrcAt]
    /\ UNCHANGED <<ndebug, alg, key, nonce, plain, ret, cmpVars, streamVars, objVars, valVars>>

\* A variation of what lock returned, as it reaches unlock: the mac with byte j
\* replaced, the ciphertext with byte j replaced, or cut or extended by a byte.
OtherCell(c) == IF c = ByteCell(0) THEN ByteCell(1) ELSE ByteCell(0)
Replaced(cells, j) == [cells EXCEPT ![j] = OtherCell(cells[j])]
MacVariations(mac) == {mac} \cup {Replaced(mac, j) : j \in {1, MacSize}}
TextVariations(ct) ==
    {ct} \cup {Replaced(ct, j) : j \in 1..Len(ct)}
         \cup {SubSeq(ct, 1, Len(ct) - 1) : x \in {y \in {1} : Len(ct) > 0}}
         \cup {ct \o <<FillerCell>>}

\* The caller puts the ciphertext `ct` at the place lock wrote it to and calls
\* key2.unlock(nonce2, mac, {sealed.at, |ct|}, ad, dst).
Unlock(key2, nonce2, mac, ct, ad, dst) ==
    /\ pc = "locked"
    /\ \E r \in {unlock(alg, ndebug, memcpy(mem, sealed.at, ct), key2, nonce2, mac,
                        sealed.at, Len(ct), ad, dst)} :
           /\ pc' = IF r.aborted THEN "aborted" ELSE "unlocked"
           /\ mem' = r.mem
           /\ ret' = [ok |-> r.ret /\ ~r.aborted, out |-> [data |-> dst, size |-> Len(ct)]]
    /\ call' = [NoCall EXCEPT !.op = "unlock", !.key = key2, !.nonce = nonce2,
                               !.mac = mac, !.ct = ct, !.at = sealed.at, !.ad = ad,
                               !.buf = [data |-> dst, size |-> Len(ct)]]
    /\ UNCHANGED <<ndebug, alg, key, nonce, plain, sealed, cmpVars, streamVars, objVars, valVars>>

\* The unlock calls of the model: at most one of key, nonce, mac, ciphertext
\* and additional data differs from what lock was given or returned.
UnlockCalls ==
    LET same == <<key, nonce, sealed.mac, sealed.ct, sealed.ad>> IN
    {same}
      \cup {[same EXCEPT ![1] = k] : k \in Keys}
      \cup {[same EXCEPT ![2] = n] : n \in Nonces}
      \cup {[same EXCEPT ![3] = mc] : mc \in MacVariations(sealed.mac)}
      \cup {[same EXCEPT ![4] = ct] : ct \in TextVariations(sealed.ct)}
      \cup {[same EXCEPT ![5] = ad] : ad \in ADs}

LockDsts == {SrcAt, SrcAt + 1, SrcAt - 1, FarAt}
UnlockDsts == {sealed.at, sealed.at + 1, 1}

\* out = key.box(nonce, {SrcAt, n}, output_buffer).  With a buffer that is too
\* small a debug build stops at the assertion of shrunk_to; any other build
\* writes past the buffer, and the program is followed no further ("overflow").
Box(output_buffer) ==
    /\ pc = "start"
    /\ \E r \in {box(alg, ndebug, mem, key, nonce, SrcAt, Len(plain), output_buffer)} :
         IF r.aborted
         THEN /\ pc' = "aborted"
              /\ UNCHANGED <<mem, sealed>>
         ELSE /\ pc' = IF r.out.size > output_buffer.size THEN "overflow" ELSE "boxed"
              /\ mem' = r.mem
              /\ sealed' = [op |-> "box",
                            mac |-> ReadCells(r.mem, r.out.data, Min(MacSize, r.out.size)),
                            ct |-> ReadCells(r.mem, r.out.data + MacSize,
                                             unboxedSize(r.out.size)),
                            at |-> r.out.data, ad |-> <<>>, out |-> r.out]
    /\ call' = [NoCall EXCEPT !.op = "box", !.at = SrcAt, !.buf = output_buffer]
    /\ UNCHANGED <<ndebug, alg, key, nonce, plain, ret, cmpVars, streamVars, objVars, valVars>>

\* The output buffers of box: the one that makes the ciphertext land on the
\* plaintext (in place), one that makes it overlap the plaintext, one that
\* starts where the plaintext starts, a distant one with room to spare, and
\* a distant one that is a byte too small.
BoxBufs ==
    LET n == Len(plain) IN
    {[data |-> SrcAt - MacSize,     size |-> n + MacSize],
     [data |-> SrcAt - MacSize + 1, size |-> n + MacSize],
     [data |-> SrcAt,               size |-> n + MacSize],
     [data |-> FarAt,               size |-> n + MacSize + 1],
     [data |-> FarAt,               size |-> n + MacSize - 1]}

\* The caller puts `boxed` at the place box wrote its output to and calls
\* key2.unbox(nonce2, {sealed.at, |boxed|}, output_buffer).
Unbox(key2, nonce2, boxed, output_buffer) ==
    /\ pc = "boxed"
    /\ \E r \in {unbox(alg, ndebug, memcpy(mem, sealed.at, boxed), key2, nonce2,
                       [data |-> sealed.at, size |-> Len(boxed)], output_buffer)} :
           /\ pc' = IF r.aborted THEN "aborted"
                    ELSE IF r.out.size > output_buffer.size THEN "overflow"
                    ELSE "unboxed"
           /\ mem' = r.mem
           /\ ret' = [ok |-> ~r.aborted /\ r.out.data # NULL, out |-> r.out]
    /\ call' = [NoCall EXCEPT !.op = "unbox", !.key = key2, !.nonce = nonce2,
                               !.mac = SubSeq(boxed, 1, Min(MacSize, Len(boxed))),
                               !.ct = SubSeq(boxed, MacSize + 1, Len(boxed)),
                               !.at = sealed.at, !.buf = output_buffer]
    /\ UNCHANGED <<ndebug, alg, key, nonce, plain, sealed, cmpVars, streamVars, objVars, valVars>>

\* The unbox calls of the model: at most one of key, nonce and boxed input
\* differs from what box was given or returned; the boxed input may be cut
\* below the size of a mac.
UnboxCalls ==
    LET same == <<key, nonce, sealed.mac \o sealed.ct>> IN
    {same}
      \cup {[same EXCEPT ![1] = k] : k \in Keys}
      \cup {[same EXCEPT ![2] = n] : n \in Nonces}
      \cup {[same EXCEPT ![3] = mc \o sealed.ct] : mc \in MacVariations(sealed.mac)}
      \cup {[same EXCEPT ![3] = sealed.mac \o ct] : ct \in TextVariations(sealed.ct)}
      \cup {[same EXCEPT ![3] = SubSeq(same[3], 1, Min(k, Len(same[3])))] :
                k \in {0, MacSize - 1}}

\* The output buffers of unbox for a boxed input of `size` bytes: in place,
\* overlapping the ciphertext, a distant one with room to spare, and either
\* the empty buffer {nullptr, 0}, when no byte of output is due, or a
\* distant buffer that is a byte too small.
UnboxBufs(size) ==
    LET need == unboxedSize(size) IN
    {[data |-> sealed.at + MacSize,     size |-> need],
     [data |-> sealed.at + MacSize + 1, size |-> need],
     [data |-> 1,                       size |-> need + 1],
     IF need = 0 THEN NullBytes ELSE [data |-> 1, size |-> need - 1]}

\* encryption_key::unbox<OutputSize>(nonce, boxed_cipher_text, output), with
\* the byte_array `output` at address `output`:
\*   output_bytes out = unbox(nonce, boxed_cipher_text, {output.data(), output.size()});
\*   return out.size == output.size();
unbox_array(a, nd, m, k, n, boxed_cipher_text, OutputSize, output) ==
    LET r == unbox(a, nd, m, k, n, boxed_cipher_text, [data |-> output, size |-> OutputSize])
    IN  [aborted |-> r.aborted, mem |-> r.mem, out |-> r.out,
         ret |-> (r.out.size = OutputSize)]

\* byte_array<OutputSize> output;
\* ok = key2.unbox(nonce2, {sealed.at, |boxed|}, output);
UnboxArray(key2, nonce2, boxed, OutputSize) ==
    /\ pc = "boxed"
    /\ \E r \in {unbox_array(alg, ndebug, memcpy(mem, sealed.at, boxed), key2, nonce2,
                             [data |-> sealed.at, size |-> Len(boxed)], OutputSize, 1)} :
           /\ pc' = IF r.aborted THEN "aborted"
                    ELSE IF r.out.size > OutputSize THEN "overflow"
                    ELSE "unboxed"
           /\ mem' = r.mem
           /\ ret' = [ok |-> ~r.aborted /\ r.ret, out |-> r.out]
    /\ call' = [NoCall EXCEPT !.op = "unbox_array", !.key = key2, !.nonce = nonce2,
                               !.mac = SubSeq(boxed, 1, Min(MacSize, Len(boxed))),
                               !.ct = SubSeq(boxed, MacSize + 1, Len(boxed)),
                               !.at = sealed.at,
                               !.buf = [data |-> 1, size |-> OutputSize]]
    /\ UNCHANGED <<ndebug, alg, key, nonce, plain, sealed, cmpVars, streamVars, objVars, valVars>>

\* The sizes of the output array of unbox<OutputSize>.
OutputSizes == 0..(MaxLen + 1)

SessNext ==
    \/ \E ad \in {<<>>, <<1>>}, dst \in LockDsts : Lock(ad, dst)
    \/ /\ pc = "locked"
       /\ \E c \in UnlockCalls, dst \in UnlockDsts :
              Unlock(c[1], c[2], c[3], c[4], c[5], dst)
    \/ \E b \in BoxBufs : Box(b)
    \/ /\ pc = "boxed"
       /\ \E c \in UnboxCalls : \E b \in UnboxBufs(Len(c[3])) :
              Unbox(c[1], c[2], c[3], b)
    \/ /\ pc = "boxed"
       /\ \E c \in UnboxCalls, OutputSize \in OutputSizes :
              UnboxArray(c[1], c[2], c[3], OutputSize)

(***************************************************************************)
(* session::encrypted_writer / encrypted_reader <XChaCha20_Poly1305>.      *)
(* (XSalsa20_Poly1305 has no stream functions: it does not compile here.)  *)
(***************************************************************************)
\* XChaCha20_Poly1305::init_stream, write_stream, read_stream
init_stream(k, n) == crypto_aead_init_x(k, n)
write_stream(ctx, m, cipher_text, ad, plain_text, text_size) ==
    crypto_aead_write(ctx, m, cipher_text, ad, plain_text, text_size)
read_stream(ctx, m, plain_text, mac, ad, cipher_text, text_size) ==
    crypto_aead_read(ctx, m, plain_text, mac, ad, cipher_text, text_size)

\* crypto_wipe(&_context, sizeof(_context))
crypto_wipe_context(ctx) ==
    [counter |-> 0,
     key     |-> [x \in 1..KeySize |-> 0],
     nonce   |-> [x \in 1..StreamNonceSize |-> 0]]

\* Every byte of a crypto_aead_ctx is zero.
ContextIsZero(ctx) ==
    /\ ctx.counter = 0
    /\ \A x \in 1..KeySize : ctx.key[x] = 0
    /\ \A x \in 1..StreamNonceSize : ctx.nonce[x] = 0

\* encrypted_writer(key, n) and encrypted_reader(key, n)
encrypted_writer(k, n) == init_stream(k, n)
encrypted_reader(k, n) == init_stream(k, n)

\* ~encrypted_writer() and ~encrypted_reader()
encrypted_writer_dtor(ctx) == crypto_wipe_context(ctx)
encrypted_reader_dtor(ctx) == crypto_wipe_context(ctx)

\* encrypted_writer::write(plain_text, additional_data, out_ciphertext)
\* (encrypted_writer_write_byvalue: write on a copy of _context.)
encrypted_writer_write_byvalue(ctx, m, plain_text, text_size, ad, out_ciphertext) ==
    LET w == write_stream(ctx, m, out_ciphertext, ad, plain_text, text_size)
    IN  [aborted |-> FALSE, mem |-> w.mem, mac |-> w.mac, ctx |-> ctx]
encrypted_writer_write(ctx, m, plain_text, text_size, ad, out_ciphertext) ==
    LET w == write_stream(ctx, m, out_ciphertext, ad, plain_text, text_size)
    IN  [aborted |-> FALSE, mem |-> w.mem, mac |-> w.mac, ctx |-> w.ctx]

\* encrypted_writer::box(plain_text, additional_data, output_buffer)
encrypted_writer_box(nd, ctx, m, plain_text, text_size, ad, output_buffer) ==
    LET b == _box(nd, m, output_buffer, text_size,
                  [out \in BoxCallbackArgs |->
                      encrypted_writer_write(ctx, m, plain_text, text_size, ad, out)])
    IN  [aborted |-> b.aborted, mem |-> b.mem, out |-> b.out,
         ctx |-> IF b.cb.aborted THEN ctx ELSE b.cb.ctx]

\* encrypted_reader::read(mac, ciphertext, additional_data, out_plaintext);
\* mac is passed by value.
\* (encrypted_reader_read_noad: read with the additional data left out;
\*  encrypted_reader_read_byvalue: read on a copy of _context.)
encrypted_reader_read_noad(ctx, m, mac, ciphertext, text_size, ad, out_plaintext) ==
    LET r == read_stream(ctx, m, out_plaintext, mac, <<>>, ciphertext, text_size)
    IN  [aborted |-> FALSE, mem |-> r.mem, ret |-> (r.ret = 0), ctx |-> r.ctx]
encrypted_reader_read_byvalue(ctx, m, mac, ciphertext, text_size, ad, out_plaintext) ==
    LET r == read_stream(ctx, m, out_plaintext, mac, ad, ciphertext, text_size)
    IN  [aborted |-> FALSE, mem |-> r.mem, ret |-> (r.ret = 0), ctx |-> ctx]
encrypted_reader_read(ctx, m, mac, ciphertext, text_size, ad, out_plaintext) ==
    LET r == read_stream(ctx, m, out_plaintext, mac, ad, ciphertext, text_size)
    IN  [aborted |-> FALSE, mem |-> r.mem, ret |-> (r.ret = 0), ctx |-> r.ctx]

\* encrypted_reader::unbox(boxed_ciphertext, additional_data, output_buffer)
encrypted_reader_unbox(nd, ctx, m, boxed_ciphertext, ad, output_buffer) ==
    LET u == _unbox(nd, m, output_buffer, boxed_ciphertext,
                    [c \in UnboxCallbackArgs |->
                        encrypted_reader_read(ctx, m, c[1], c[2], c[3], ad, c[4])])
    IN  [aborted |-> u.aborted, mem |-> u.mem, out |-> u.out,
         ctx |-> IF u.cb.aborted THEN ctx ELSE u.cb.ctx]

(***************************************************************************)
(* The calling program of the stream API: a sender writes or boxes up to   *)
(* MaxChunks chunks and lets its writer go out of scope; a receiver then   *)
(* hands chunks, or variations of them, to a reader built from the same    *)
(* key and nonce, until a chunk is rejected or its reader goes out of      *)
(* scope.                                                                  *)
(***************************************************************************)
MaxChunks == 2
BoxAt == SrcAt - MacSize        \* where a boxed chunk lies: its ciphertext is at SrcAt
FirstKey == [x \in 1..KeySize |-> IF x = KeySize THEN 0 ELSE x]
FullText == [x \in 1..MaxLen |-> ByteCell((60 * x + MaxLen) % 256)]

NoStream == [ctx |-> <<>>, state |-> "none"]

StreamInit ==
    /\ pc = "writing"
    /\ ndebug = FALSE
    /\ alg = "XChaCha20_Poly1305"
    /\ key = FirstKey
    /\ nonce = FirstNonce
    /\ plain = <<>>
    /\ mem = InitMem(<<>>)
    /\ sealed = NoSealed
    /\ call = NoCall
    /\ ret = NoRet
    /\ writer = [ctx |-> encrypted_writer(key, nonce), state |-> "alive"]
    /\ reader = [ctx |-> encrypted_reader(key, nonce), state |-> "alive"]
    /\ wire = <<>>
    /\ nread = 0

StreamIdle ==
    /\ writer = NoStream
    /\ reader = NoStream
    /\ wire = <<>>
    /\ nread = 0

\* The caller puts the chunk p at SrcAt and calls
\* mac = writer.write({SrcAt, |p|}, ad, dst).
Write(p, ad, dst) ==
    /\ pc = "writing"
    /\ Len(wire) < MaxChunks
    /\ \E r \in {encrypted_writer_write(writer.ctx, memcpy(mem, SrcAt, p), SrcAt, Len(p),
                                        ad, dst)} :
         /\ mem' = r.mem
         /\ writer' = [writer EXCEPT !.ctx = r.ctx]
         /\ sealed' = [op |-> "write", mac |-> r.mac, ct |-> ReadCells(r.mem, dst, Len(p)),
                       at |-> dst, ad |-> ad, out |-> [data |-> dst, size |-> Len(p)]]
         /\ wire' = Append(wire, [mac |-> r.mac, ct |-> ReadCells(r.mem, dst, Len(p)),
                                  ad |-> ad, plain |-> p, boxed |-> FALSE])
    /\ plain' = p
    /\ call' = [NoCall EXCEPT !.op = "write", !.at = SrcAt, !.ad = ad,
                              !.idx = Len(wire) + 1]
    /\ UNCHANGED <<pc, ndebug, alg, key, nonce, ret, reader, nread, cmpVars, objVars, valVars>>

\* The caller puts the chunk p at SrcAt and calls
\* out = writer.box({SrcAt, |p|}, ad, output_buffer).
WriterBox(p, ad, output_buffer) ==
    /\ pc = "writing"
    /\ Len(wire) < MaxChunks
    /\ \E r \in {encrypted_writer_box(ndebug, writer.ctx, memcpy(mem, SrcAt, p), SrcAt,
                                      Len(p), ad, output_buffer)} :
         IF r.aborted
         THEN /\ pc' = "aborted"
              /\ UNCHANGED <<mem, writer, sealed, wire>>
         ELSE /\ pc' = pc
              /\ mem' = r.mem
              /\ writer' = [writer EXCEPT !.ctx = r.ctx]
              /\ sealed' = [op |-> "box",
                            mac |-> ReadCells(r.mem, r.out.data, Min(MacSize, r.out.size)),
                            ct |-> ReadCells(r.mem, r.out.data + MacSize,
                                             unboxedSize(r.out.size)),
                            at |-> r.out.data, ad |-> ad, out |-> r.out]
              /\ wire' = Append(wire,
                            [mac |-> ReadCells(r.mem, r.out.data, Min(MacSize, r.out.size)),
                             ct |-> ReadCells(r.mem, r.out.data + MacSize,
                                              unboxedSize(r.out.size)),
                             ad |-> ad, plain |-> p, boxed |-> TRUE])
    /\ plain' = p
    /\ call' = [NoCall EXCEPT !.op = "box", !.at = SrcAt, !.ad = ad,
                              !.buf = output_buffer, !.idx = Len(wire) + 1]
    /\ UNCHANGED <<ndebug, alg, key, nonce, ret, reader, nread, cmpVars, objVars, valVars>>

\* The sender is done: its writer goes out of scope.
DestroyWriter ==
    /\ pc = "writing"
    /\ pc' = "reading"
    /\ writer' = [ctx |-> encrypted_writer_dtor(writer.ctx), state |-> "destroyed"]
    /\ call' = [NoCall EXCEPT !.op = "~encrypted_writer"]
    /\ UNCHANGED <<ndebug, alg, mem, key, nonce, plain, sealed, ret, reader, wire, nread, cmpVars, objVars, valVars>>

\* The writes of the model: a full chunk in place, a full chunk with additional
\* data to a distant buffer, an empty chunk; a full chunk boxed in place, an
\* empty chunk boxed with additional data into a distant buffer with room to
\* spare.
WriteCalls ==
    {<<FullText, <<>>, SrcAt>>, <<FullText, <<1>>, FarAt>>, <<<<>>, <<>>, SrcAt>>}
WriterBoxCalls ==
    {<<FullText, <<>>, [data |-> BoxAt, size |-> MaxLen + MacSize]>>,
     <<<<>>, <<1>>, [data |-> FarAt, size |-> MacSize + 1]>>}

\* Chunk i of the wire, as the arguments of a read: position, mac, ciphertext
\* and additional data.
Chunk(i) == <<i, wire[i].mac, wire[i].ct, wire[i].ad>>

\* What the receiver may present: the next chunk as written; the next chunk
\* with other additional data, a changed mac, or a ciphertext cut or extended
\* by a byte; a chunk of another position.
ReadCalls ==
    {Chunk(i) : i \in 1..Len(wire)}
      \cup IF nread < Len(wire)
           THEN LET same == Chunk(nread + 1) IN
                {[same EXCEPT ![4] = ad] : ad \in ADs}
                  \cup {[same EXCEPT ![2] = Replaced(same[2], MacSize)]}
                  \cup {[same EXCEPT ![3] = ct] : ct \in TextVariations(same[3])}
           ELSE {}

\* The caller puts the ciphertext `ct` at SrcAt and calls
\* ok = reader.read(mac, {SrcAt, |ct|}, ad, dst).
Read(idx, mac, ct, ad, dst) ==
    /\ pc = "reading"
    /\ \E r \in {encrypted_reader_read(reader.ctx, memcpy(mem, SrcAt, ct), mac, SrcAt,
                                       Len(ct), ad, dst)} :
         /\ pc' = IF r.ret THEN "reading" ELSE "rejected"
         /\ mem' = r.mem
         /\ nread' = IF r.ctx # reader.ctx THEN nread + 1 ELSE nread
         /\ reader' = [reader EXCEPT !.ctx = r.ctx]
         /\ ret' = [ok |-> r.ret, out |-> [data |-> dst, size |-> Len(ct)]]
    /\ call' = [NoCall EXCEPT !.op = "read", !.mac = mac, !.ct = ct, !.at = SrcAt,
                              !.ad = ad, !.buf = [data |-> dst, size |-> Len(ct)],
                              !.idx = idx, !.pos = nread]
    /\ UNCHANGED <<ndebug, alg, key, nonce, plain, sealed, writer, wire, cmpVars, objVars, valVars>>

\* The caller puts `boxed` at BoxAt and calls
\* out = reader.unbox({BoxAt, |boxed|}, ad, output_buffer).
ReaderUnbox(idx, boxed, ad, output_buffer) ==
    /\ pc = "reading"
    /\ \E r \in {encrypted_reader_unbox(ndebug, reader.ctx, memcpy(mem, BoxAt, boxed),
                                        [data |-> BoxAt, size |-> Len(boxed)], ad,
                                        output_buffer)} :
         /\ pc' = IF r.aborted THEN "aborted"
                  ELSE IF r.out.data # NULL THEN "reading" ELSE "rejected"
         /\ mem' = r.mem
         /\ nread' = IF r.ctx # reader.ctx THEN nread + 1 ELSE nread
         /\ reader' = [reader EXCEPT !.ctx = r.ctx]
         /\ ret' = [ok |-> ~r.aborted /\ r.out.data # NULL, out |-> r.out]
    /\ call' = [NoCall EXCEPT !.op = "unbox",
                              !.mac = SubSeq(boxed, 1, Min(MacSize, Len(boxed))),
                              !.ct = SubSeq(boxed, MacSize + 1, Len(boxed)),
                              !.at = BoxAt, !.ad = ad, !.buf = output_buffer,
                              !.idx = idx, !.pos = nread]
    /\ UNCHANGED <<ndebug, alg, key, nonce, plain, sealed, writer, wire, cmpVars, objVars, valVars>>

\* The output buffers of reader.unbox for `need` bytes of output: in place,
\* and either the empty buffer {nullptr, 0}, when no byte of output is due,
\* or a distant buffer with room to spare.
ReaderUnboxBufs(need) ==
    {[data |-> SrcAt, size |-> need],
     IF need = 0 THEN NullBytes ELSE [data |-> FarAt, size |-> need + 1]}

\* The receiver is done: its reader goes out of scope.
DestroyReader ==
    /\ pc = "reading"
    /\ pc' = "closed"
    /\ reader' = [ctx |-> encrypted_reader_dtor(reader.ctx), state |-> "destroyed"]
    /\ call' = [NoCall EXCEPT !.op = "~encrypted_reader"]
    /\ UNCHANGED <<ndebug, alg, mem, key, nonce, plain, sealed, ret, writer, wire, nread, cmpVars, objVars, valVars>>

\* A chunk that was written is read, a chunk that was boxed is unboxed; a boxed
\* chunk may also arrive cut below the size of a mac.
StreamNext ==
    \/ \E c \in WriteCalls : Write(c[1], c[2], c[3])
    \/ \E c \in WriterBoxCalls : WriterBox(c[1], c[2], c[3])
    \/ DestroyWriter
    \/ /\ pc = "reading"
       /\ \E c \in {x \in ReadCalls : ~wire[x[1]].boxed} :
            \E dst \in IF c = Chunk(c[1]) THEN {SrcAt, FarAt} ELSE {SrcAt} :
                Read(c[1], c[2], c[3], c[4], dst)
    \/ /\ pc = "reading"
       /\ \E c \in {x \in ReadCalls : wire[x[1]].boxed} :
            \E b \in ReaderUnboxBufs(Len(c[3])) :
                ReaderUnbox(c[1], c[2] \o c[3], c[4], b)
    \/ /\ pc = "reading"
       /\ nread < Len(wire)
       /\ wire[nread + 1].boxed
       /\ ReaderUnbox(nread + 1, SubSeq(wire[nread + 1].mac, 1, MacSize - 1),
                      wire[nread + 1].ad, [data |-> SrcAt, size |-> 0])
    \/ DestroyReader

(***************************************************************************)
(* byte_array<Size> and secret_byte_array<Size>, on the array's bytes.     *)
(***************************************************************************)
\* byte_array(uint8_t b)
byte_array(Size, b) == [x \in 1..Size |-> b]

\* randomize(dst, size), the std::random_device loop: every sizeof(unsigned)
\* bytes are the bytes of the next word of `rng`.  With a size that is not a
\* multiple of sizeof(unsigned) a debug build stops at the assertion and any
\* other build runs past the end of the array (`overrun`); the loop is taken
\* step by step in RandomizeStore.
WordSize == 4
randomize(nd, a, size, rng) ==
    IF size % WordSize # 0
    THEN [aborted |-> ~nd, overrun |-> nd, data |-> a]
    ELSE [aborted |-> FALSE, overrun |-> FALSE,
          data |-> [x \in DOMAIN a |->
                       IF x <= size
                       THEN (rng[((x - 1) \div WordSize) + 1]
                                \div (256 ^ ((x - 1) % WordSize))) % 256
                       ELSE a[x]]]

\* byte_array::wipe, crypto_wipe(data(), Size); clear() is its synonym.
wipe(a) == [x \in DOMAIN a |-> 0]
clear(a) == wipe(a)

\* byte_array::fill(b)
fill(a, b) ==
    LET wiped == wipe(a) IN IF b # 0 THEN [x \in DOMAIN a |-> b] ELSE wiped

\* byte_array::fillWith(bytes, size)
fillWith(nd, a, bytes, size) ==
    IF ~nd /\ size # Len(a)
    THEN [aborted |-> TRUE, data |-> a]
    ELSE [aborted |-> FALSE, data |-> [x \in DOMAIN a |-> bytes[x]]]

\* ~secret_byte_array()
\* (byte_array_dtor: the implicit destructor of byte_array.)
byte_array_dtor(a) == a
secret_byte_array_dtor(a) == wipe(a)

(***************************************************************************)
(* The calling program of a secret_byte_array: it constructs the object,   *)
(* applies operations to it in any order and number, and lets it go out of *)
(* scope.                                                                  *)
(***************************************************************************)
SecretSizes == {4, 16}
RngWords == {0, 67305985}           \* 0x04030201
FillBytes == {0, 7}
SourceBytes(Size) == [x \in 1..Size |-> 16 + x]

ObjInit ==
    /\ pc = "object"
    /\ ndebug \in BOOLEAN
    /\ alg = "XChaCha20_Poly1305"
    /\ mem = <<>>
    /\ key = <<>>
    /\ nonce = <<>>
    /\ plain = <<>>
    /\ sealed = NoSealed
    /\ call = NoCall
    /\ ret = NoRet
    /\ \E Size \in SecretSizes, b \in {0, 170} :
           secret = [data |-> byte_array(Size, b), state |-> "alive"]

ObjIdle == secret = [data |-> <<>>, state |-> "none"]

ObjStep(op, r) ==
    /\ pc = "object"
    /\ pc' = IF r.aborted THEN "aborted" ELSE "object"
    /\ secret' = [secret EXCEPT !.data = r.data]
    /\ call' = [NoCall EXCEPT !.op = op]
    /\ UNCHANGED <<ndebug, alg, mem, key, nonce, plain, sealed, ret, cmpVars, streamVars, valVars>>

Randomize(rng) ==
    ObjStep("randomize", randomize(ndebug, secret.data, Len(secret.data), rng))
Wipe == ObjStep("wipe", [aborted |-> FALSE, data |-> wipe(secret.data)])
Clear == ObjStep("clear", [aborted |-> FALSE, data |-> clear(secret.data)])
Fill(b) == ObjStep("fill", [aborted |-> FALSE, data |-> fill(secret.data, b)])

\* fillWith from a source of `size` bytes.  With a source shorter than the
\* array a build with NDEBUG reads past the source, and the program is
\* followed no further.
FillWith(size) ==
    /\ ndebug => size >= Len(secret.data)
    /\ ObjStep("fillWith", fillWith(ndebug, secret.data, SourceBytes(size), size))

\* The object goes out of scope; call.ct keeps the bytes it held.
DestroySecret ==
    /\ pc = "object"
    /\ pc' = "destroyed"
    /\ secret' = [data |-> secret_byte_array_dtor(secret.data), state |-> "destroyed"]
    /\ call' = [NoCall EXCEPT !.op = "~secret_byte_array", !.ct = secret.data]
    /\ UNCHANGED <<ndebug, alg, mem, key, nonce, plain, sealed, ret, cmpVars, streamVars, valVars>>

ObjNext ==
    \/ \E rng \in [1..(Len(secret.data) \div WordSize) -> RngWords] : Randomize(rng)
    \/ Wipe
    \/ Clear
    \/ \E b \in FillBytes : Fill(b)
    \/ \E size \in {Len(secret.data), Len(secret.data) - 1} : FillWith(size)
    \/ DestroySecret

(***************************************************************************)
(* The calling program of the comparison functions.                        *)
(***************************************************************************)
\* The buffers of a comparison: a holds non-zero bytes, b is a copy of a in
\* which the bytes at the positions `diff` were replaced.
CmpBytesA(cap) == [k \in 1..cap |-> 1 + (k % 5)]
CmpBytesB(cap, diff, v) == [k \in 1..cap |-> IF k \in diff THEN v ELSE 1 + (k % 5)]
CmpDiffs(cap) == {{}} \cup {{p} : p \in 1..cap} \cup {{p, p + 16} : p \in 1..(cap - 16)}

CmpInit ==
    /\ pc = "cmp_start"
    /\ cmpSize \in 0..MaxCmpSize
    /\ cmpA = CmpBytesA(cmpSize + CmpSlack)
    /\ \E diff \in CmpDiffs(cmpSize + CmpSlack), v \in {0, 9} :
           cmpB = CmpBytesB(cmpSize + CmpSlack, diff, v)
    /\ cmpRet = FALSE
    /\ cmpTrace = <<>>

CmpIdle ==
    /\ cmpSize = 0
    /\ cmpA = <<>>
    /\ cmpB = <<>>
    /\ cmpRet = FALSE
    /\ cmpTrace = <<>>

\* A call of constant_time_compare(a, b, size).
Compare ==
    /\ pc = "cmp_start"
    /\ LET r == constant_time_compare(cmpA, cmpB, cmpSize) IN
           /\ cmpRet' = r.ret
           /\ cmpTrace' = r.trace
    /\ pc' = "compared"
    /\ UNCHANGED <<cmpA, cmpB, cmpSize, sessVars, streamVars, objVars, valVars>>

\* a == b for two byte_array<cmpSize>.
CompareEq ==
    /\ pc = "cmp_start"
    /\ cmpSize \in SpecialisedSizes \cup GenericSizes
    /\ LET r == ArrayEq(cmpA, cmpB, cmpSize) IN
           /\ cmpRet' = r.ret
           /\ cmpTrace' = r.trace
    /\ pc' = "array_eq"
    /\ UNCHANGED <<cmpA, cmpB, cmpSize, sessVars, streamVars, objVars, valVars>>

\* a != b for two byte_array<cmpSize>.
CompareNe ==
    /\ pc = "cmp_start"
    /\ cmpSize \in SpecialisedSizes \cup GenericSizes
    /\ LET r == ArrayNe(cmpA, cmpB, cmpSize) IN
           /\ cmpRet' = r.ret
           /\ cmpTrace' = r.trace
    /\ pc' = "array_ne"
    /\ UNCHANGED <<cmpA, cmpB, cmpSize, sessVars, streamVars, objVars, valVars>>

CmpNext == Compare \/ CompareEq \/ CompareNe

(***************************************************************************)
(* The vendored hash primitives (Blake2b, SHA-512, HMAC-SHA-512 in         *)
(* Monocypher, B-Con's SHA-256, the BLAKE3 reference implementation), as a *)
(* rolling hash: a context holds the algorithm, the output size, and the   *)
(* running state and length of everything absorbed so far.                 *)
(***************************************************************************)
HashModulus == 65521

HashTag(name) ==
    CASE name = "Blake2b" -> 3 [] name = "SHA-256" -> 4 [] name = "SHA-512" -> 5
      [] name = "HMAC-SHA-512" -> 6 [] name = "BLAKE3" -> 7

RECURSIVE Absorb(_, _, _)
Absorb(h, msg, k) ==
    IF k = 0 THEN h ELSE (Absorb(h, msg, k - 1) * 33 + msg[k] + 1) % HashModulus

hash_init(name, size, k) ==
    [name |-> name, size |-> size, len |-> 0,
     h |-> Absorb((HashTag(name) * 257 + size + Len(k)) % HashModulus, k, Len(k))]
hash_update(ctx, msg) ==
    [ctx EXCEPT !.h = Absorb(ctx.h, msg, Len(msg)), !.len = ctx.len + Len(msg)]
hash_final(ctx) == [x \in 1..ctx.size |-> (ctx.h + 7 * x + ctx.len) % 256]

crypto_blake2b_init(hash_size) == hash_init("Blake2b", hash_size, <<>>)
crypto_blake2b_keyed_init(hash_size, k) == hash_init("Blake2b", hash_size, k)
crypto_blake2b_update(ctx, msg) == hash_update(ctx, msg)
crypto_blake2b_final(ctx) == hash_final(ctx)
crypto_blake2b(hash_size, msg) ==
    crypto_blake2b_final(crypto_blake2b_update(crypto_blake2b_init(hash_size), msg))
crypto_blake2b_keyed(hash_size, k, msg) ==
    crypto_blake2b_final(crypto_blake2b_update(crypto_blake2b_keyed_init(hash_size, k), msg))

crypto_sha512_init == hash_init("SHA-512", 64, <<>>)
crypto_sha512_update(ctx, msg) == hash_update(ctx, msg)
crypto_sha512_final(ctx) == hash_final(ctx)
crypto_sha512(msg) == crypto_sha512_final(crypto_sha512_update(crypto_sha512_init, msg))
crypto_sha512_hmac_init(k) == hash_init("HMAC-SHA-512", 64, k)
crypto_sha512_hmac_update(ctx, msg) == hash_update(ctx, msg)
crypto_sha512_hmac_final(ctx) == hash_final(ctx)
crypto_sha512_hmac(k, msg) ==
    crypto_sha512_hmac_final(crypto_sha512_hmac_update(crypto_sha512_hmac_init(k), msg))

sha256_init == hash_init("SHA-256", 32, <<>>)
sha256_update(ctx, msg) == hash_update(ctx, msg)
sha256_final(ctx) == hash_final(ctx)

blake3_hasher_init == hash_init("BLAKE3", 0, <<>>)
blake3_hasher_init_keyed(k) == hash_init("BLAKE3", 0, k)
blake3_hasher_update(ctx, msg) == hash_update(ctx, msg)
blake3_hasher_finalize(ctx, hash_size) == hash_final([ctx EXCEPT !.size = hash_size])

(***************************************************************************)
(* The algorithm parameters of hash<>: Blake2b<Size>, SHA256, SHA512,      *)
(* Blake3<Size>.  An algorithm is the record of its name and hash_size.    *)
(***************************************************************************)
Blake3KeySize == 32

HashAlgorithms ==
    {[name |-> "Blake2b", hash_size |-> 64], [name |-> "Blake2b", hash_size |-> 32],
     [name |-> "SHA-256", hash_size |-> 32], [name |-> "SHA-512", hash_size |-> 64],
     [name |-> "BLAKE3", hash_size |-> 32]}

\* The algorithms with a nested `mac`; SHA256 has none ("no MAC support").
MacAlgorithms == {a \in HashAlgorithms : a.name # "SHA-256"}

\* SHA256::create_fn and Blake3Base::create_fn: init, update, final.
SHA256_create_fn(msg) == sha256_final(sha256_update(sha256_init, msg))
Blake3Base_create_fn(hash_size, msg) ==
    blake3_hasher_finalize(blake3_hasher_update(blake3_hasher_init, msg), hash_size)

\* Blake3Base::init_mac_fn and create_mac_fn throw std::invalid_argument
\* unless key_size is 32.
Blake3Base_init_mac_fn(k) ==
    IF Len(k) # Blake3KeySize THEN [thrown |-> TRUE, ctx |-> <<>>]
    ELSE [thrown |-> FALSE, ctx |-> blake3_hasher_init_keyed(k)]
Blake3Base_create_mac_fn(hash_size, k, msg) ==
    IF Len(k) # Blake3KeySize THEN [thrown |-> TRUE, hash |-> <<>>]
    ELSE [thrown |-> FALSE,
          hash |-> blake3_hasher_finalize(
                       blake3_hasher_update(blake3_hasher_init_keyed(k), msg), hash_size)]

\* HashAlgorithm::create_fn, init_fn, update_fn, final_fn
create_fn(a, msg) ==
    CASE a.name = "Blake2b" -> crypto_blake2b(a.hash_size, msg)
      [] a.name = "SHA-256" -> SHA256_create_fn(msg)
      [] a.name = "SHA-512" -> crypto_sha512(msg)
      [] a.name = "BLAKE3"  -> Blake3Base_create_fn(a.hash_size, msg)
init_fn(a) ==
    CASE a.name = "Blake2b" -> crypto_blake2b_init(a.hash_size)
      [] a.name = "SHA-256" -> sha256_init
      [] a.name = "SHA-512" -> crypto_sha512_init
      [] a.name = "BLAKE3"  -> blake3_hasher_init
update_fn(a, ctx, msg) ==
    CASE a.name = "Blake2b" -> crypto_blake2b_update(ctx, msg)
      [] a.name = "SHA-256" -> sha256_update(ctx, msg)
      [] a.name = "SHA-512" -> crypto_sha512_update(ctx, msg)
      [] a.name = "BLAKE3"  -> blake3_hasher_update(ctx, msg)
final_fn(a, ctx) ==
    CASE a.name = "Blake2b" -> crypto_blake2b_final(ctx)
      [] a.name = "SHA-256" -> sha256_final(ctx)
      [] a.name = "SHA-512" -> crypto_sha512_final(ctx)
      [] a.name = "BLAKE3"  -> blake3_hasher_finalize(ctx, a.hash_size)

\* HashAlgorithm::mac::create_fn, init_fn, update_fn, final_fn
mac_create_fn(a, k, msg) ==
    CASE a.name = "Blake2b" ->
            [thrown |-> FALSE, hash |-> crypto_blake2b_keyed(a.hash_size, k, msg)]
      [] a.name = "SHA-512" -> [thrown |-> FALSE, hash |-> crypto_sha512_hmac(k, msg)]
      [] a.name = "BLAKE3"  -> Blake3Base_create_mac_fn(a.hash_size, k, msg)
mac_init_fn(a, k) ==
    CASE a.name = "Blake2b" ->
            [thrown |-> FALSE, ctx |-> crypto_blake2b_keyed_init(a.hash_size, k)]
      [] a.name = "SHA-512" -> [thrown |-> FALSE, ctx |-> crypto_sha512_hmac_init(k)]
      [] a.name = "BLAKE3"  -> Blake3Base_init_mac_fn(k)
mac_update_fn(a, ctx, msg) ==
    CASE a.name = "Blake2b" -> crypto_blake2b_update(ctx, msg)
      [] a.name = "SHA-512" -> crypto_sha512_hmac_update(ctx, msg)
      [] a.name = "BLAKE3"  -> blake3_hasher_update(ctx, msg)
mac_final_fn(a, ctx) ==
    CASE a.name = "Blake2b" -> crypto_blake2b_final(ctx)
      [] a.name = "SHA-512" -> crypto_sha512_hmac_final(ctx)
      [] a.name = "BLAKE3"  -> blake3_hasher_finalize(ctx, a.hash_size)

(***************************************************************************)
(* hash<HashAlgorithm>: create, createMAC, builder, mac_builder.           *)
(***************************************************************************)
\* hash::create(message) noexcept
hash_create(a, msg) == [outcome |-> "returned", hash |-> create_fn(a, msg)]

\* hash::createMAC(message, key) noexcept: an exception that leaves a
\* noexcept function ends the program by std::terminate.
hash_createMAC(a, msg, k) ==
    LET r == mac_create_fn(a, k, msg) IN
    IF r.thrown THEN [outcome |-> "terminate", hash |-> <<>>]
    ELSE [outcome |-> "returned", hash |-> r.hash]

\* builder() and mac_builder(key)
builder(a) == [outcome |-> "constructed", keyed |-> FALSE, ctx |-> init_fn(a)]
mac_builder(a, k) ==
    LET r == mac_init_fn(a, k) IN
    IF r.thrown THEN [outcome |-> "invalid_argument", keyed |-> TRUE, ctx |-> <<>>]
    ELSE [outcome |-> "constructed", keyed |-> TRUE, ctx |-> r.ctx]

\* _builder::update(message) and _builder::final()
\* (_builder_update_byvalue: update on a copy of the builder.)
_builder_update_byvalue(a, b, msg) == b
_builder_update(a, b, msg) ==
    [b EXCEPT !.ctx = IF b.keyed THEN mac_update_fn(a, b.ctx, msg)
                      ELSE update_fn(a, b.ctx, msg)]
_builder_final(a, b) ==
    IF b.keyed THEN mac_final_fn(a, b.ctx) ELSE final_fn(a, b.ctx)

(***************************************************************************)
(* The calling program of hash<>: it constructs a builder or a mac_builder *)
(* for an algorithm, feeds it pieces of a message and asks for the hash.   *)
(***************************************************************************)
MaxPieces == 3
MaxMsgLen == 3

HashPieces == {<<>>, <<1>>, <<2>>, <<1, 2>>, <<2, 2>>}
HashKeys == {[x \in 1..16 |-> 7], [x \in 1..32 |-> 7], [x \in 1..32 |-> 9]}
NoBuilder == [outcome |-> "none", keyed |-> FALSE, ctx |-> <<>>]
NoHashAlg == [name |-> "none", hash_size |-> 0]

RECURSIVE Concat(_, _)
Concat(pieces, k) == IF k = 0 THEN <<>> ELSE Concat(pieces, k - 1) \o pieces[k]

HashInit ==
    /\ pc = "hash_start"
    /\ hashAlg \in HashAlgorithms
    /\ hashKey = <<>>
    /\ hashBuilder = NoBuilder
    /\ hashFed = <<>>
    /\ hashOut = <<>>

HashIdle ==
    /\ hashAlg = NoHashAlg
    /\ hashKey = <<>>
    /\ hashBuilder = NoBuilder
    /\ hashFed = <<>>
    /\ hashOut = <<>>

(***************************************************************************)
(* The vendored X25519 primitives, as Diffie-Hellman in the multiplicative *)
(* group modulo a small prime: a 32-byte public key carries a group        *)
(* element in its first byte, a 32-byte secret key stands for a scalar.    *)
(***************************************************************************)
GroupPrime == 251
GroupGenerator == 6
ExchangeKeySize == 32

RECURSIVE PowMod(_, _)
PowMod(b, e) ==
    IF e = 0 THEN 1
    ELSE LET h == PowMod(b, e \div 2) IN
         (((h * h) % GroupPrime) * (IF e % 2 = 1 THEN b ELSE 1)) % GroupPrime

Scalar(sk) == 1 + (Digest(sk, Len(sk)) % (GroupPrime - 2))
Point(pk) == 1 + (pk[1] % (GroupPrime - 1))
EncodePoint(e) == [x \in 1..ExchangeKeySize |-> IF x = 1 THEN e - 1 ELSE 0]

crypto_x25519_public_key(sk) == EncodePoint(PowMod(GroupGenerator, Scalar(sk)))
crypto_x25519(sk, pk) == EncodePoint(PowMod(Point(pk), Scalar(sk)))

\* Monocypher's crypto_key_exchange: X25519, then HChaCha20 of the result
\* with a zero input.
crypto_key_exchange_public_key(sk) == crypto_x25519_public_key(sk)
crypto_key_exchange(sk, pk) ==
    crypto_chacha20_h(crypto_x25519(sk, pk), [x \in 1..16 |-> 0])

(***************************************************************************)
(* key_exchange<Algorithm>, on the bytes of its _secret_key.               *)
(***************************************************************************)
ExchangeAlgorithms == {"X25519_HChaCha20", "X25519_Raw"}

get_public_key_fn(a, sk) ==
    IF a = "X25519_HChaCha20" THEN crypto_key_exchange_public_key(sk)
    ELSE crypto_x25519_public_key(sk)
key_exchange_fn(a, sk, pk) ==
    IF a = "X25519_HChaCha20" THEN crypto_key_exchange(sk, pk) ELSE crypto_x25519(sk, pk)

\* key_exchange::get_public_key, get_secret_key, get_shared_secret: const
\* member functions; each gives the object's bytes afterwards and the value
\* returned.
\* (get_shared_secret_swapped: the two keys passed in the other order.)
get_public_key(a, _secret_key) ==
    [this |-> _secret_key, ret |-> get_public_key_fn(a, _secret_key)]
get_secret_key(a, _secret_key) == [this |-> _secret_key, ret |-> _secret_key]
get_shared_secret_swapped(a, _secret_key, their_public_key) ==
    [this |-> _secret_key, ret |-> key_exchange_fn(a, their_public_key, _secret_key)]
get_shared_secret(a, _secret_key, their_public_key) ==
    [this |-> _secret_key, ret |-> key_exchange_fn(a, _secret_key, their_public_key)]

(***************************************************************************)
(* The calling program of key_exchange: two parties construct a            *)
(* key_exchange each from a secret key, publish their public keys and      *)
(* compute the shared secret from the other's public key.                  *)
(***************************************************************************)
Parties == {"A", "B"}
Peer(p) == IF p = "A" THEN "B" ELSE "A"
SecretKeys == {[x \in 1..ExchangeKeySize |-> (v * x) % 256] : v \in {1, 3, 77}}
Nobody == [p \in Parties |-> <<>>]

KxInit ==
    /\ pc = "exchange"
    /\ kxAlg \in ExchangeAlgorithms
    /\ kxSecret \in [Parties -> SecretKeys]
    /\ kxInitial = kxSecret
    /\ kxPublic = Nobody
    /\ kxShared = Nobody
    /\ kxGot = Nobody

KxIdle ==
    /\ kxAlg = "X25519_HChaCha20"
    /\ kxSecret = Nobody
    /\ kxInitial = Nobody
    /\ kxPublic = Nobody
    /\ kxShared = Nobody
    /\ kxGot = Nobody

(***************************************************************************)
(* The vendored signature primitives of crypto_eddsa and crypto_ed25519,   *)
(* as an ideal scheme: byte j of a signature is the term of the signer's   *)
(* public point, the public key bytes hashed into it, and the message; a   *)
(* signature verifies under a public key exactly when it is that term for  *)
(* that key.                                                               *)
(***************************************************************************)
SeedSize == 32
SignatureSize == 64
EdDSATag == 8
Ed25519Tag == 9

SigTag(a) == IF a = "EdDSA" THEN EdDSATag ELSE Ed25519Tag

\* The public key of a seed.
PublicOf(a, s) == [x \in 1..SeedSize |-> (3 * s[x] + x + SigTag(a)) % 256]

SignatureTerm(a, point, pk, msg) ==
    [j \in 1..SignatureSize |-> <<j, SigTag(a)>> \o point \o pk \o <<Len(msg)>> \o msg]

\* crypto_eddsa_key_pair(secret_key, public_key, seed): the secret key is
\* seed || public key; the seed is wiped.
crypto_eddsa_key_pair(a, s) ==
    [secret_key |-> s \o PublicOf(a, s), public_key |-> PublicOf(a, s),
     seed |-> [x \in 1..SeedSize |-> 0]]

\* crypto_eddsa_sign(signature, secret_key, message, message_size)
crypto_eddsa_sign(a, secret_key, msg) ==
    SignatureTerm(a, PublicOf(a, SubSeq(secret_key, 1, SeedSize)),
                  SubSeq(secret_key, SeedSize + 1, 2 * SeedSize), msg)

\* crypto_eddsa_check(signature, public_key, message, message_size): 0 or -1
crypto_eddsa_check(a, sig, pk, msg) ==
    IF sig = SignatureTerm(a, pk, pk, msg) THEN 0 ELSE 0 - 1

(***************************************************************************)
(* signature<Algorithm>, public_key<Algorithm>, key_pair<Algorithm>.       *)
(***************************************************************************)
SignatureAlgorithms == {"EdDSA", "Ed25519"}

generate_fn(a, s) == crypto_eddsa_key_pair(a, s)
sign_fn(a, secret_key, msg) == crypto_eddsa_sign(a, secret_key, msg)
check_fn(a, sig, pk, msg) == crypto_eddsa_check(a, sig, pk, msg)

\* key_pair::get_public_key(): range<32,32>(); key_pair::get_seed(): range<0,32>()
key_pair_get_public_key(kp) == SubSeq(kp, SeedSize + 1, 2 * SeedSize)
key_pair_get_seed(kp) == SubSeq(kp, 1, SeedSize)

\* key_pair::generate(): a random seed, then generate_fn into the new pair.
key_pair_generate(nd, a, storage, rng) ==
    LET initialSeed == randomize(nd, storage, SeedSize, rng) IN
    IF initialSeed.aborted THEN [aborted |-> TRUE, data |-> <<>>]
    ELSE [aborted |-> FALSE, data |-> generate_fn(a, initialSeed.data).secret_key]

\* key_pair(const seed &sk): generate_fn on a copy of the seed, then
\* assert(get_seed() == sk).
\* `sk` in the result is the caller's seed as the constructor leaves it.
\* (key_pair_from_seed_nocopy: generate_fn on the caller's seed itself,
\* which the primitive wipes.)
key_pair_from_seed_nocopy(nd, a, sk) ==
    LET g  == generate_fn(a, sk)
        kp == g.secret_key
    IN  [aborted |-> ~nd /\ key_pair_get_seed(kp) # g.seed, data |-> kp, sk |-> g.seed]
key_pair_from_seed(nd, a, sk) ==
    LET s33d == sk
        kp   == generate_fn(a, s33d).secret_key
    IN  [aborted |-> ~nd /\ key_pair_get_seed(kp) # sk, data |-> kp, sk |-> sk]

\* key_pair::sign(message)
\* (key_pair_sign_seed_only: sign_fn handed the seed twice.)
key_pair_sign_seed_only(a, kp, msg) ==
    sign_fn(a, key_pair_get_seed(kp) \o key_pair_get_seed(kp), msg)
key_pair_sign(a, kp, msg) == sign_fn(a, kp, msg)

\* seed::get_public_key() and seed::sign(message): by a key_pair made of
\* the seed for the call.
seed_get_public_key(nd, a, sk) ==
    LET kp == key_pair_from_seed(nd, a, sk)
    IN  [aborted |-> kp.aborted, ret |-> key_pair_get_public_key(kp.data)]
seed_sign(nd, a, sk, msg) ==
    LET kp == key_pair_from_seed(nd, a, sk)
    IN  [aborted |-> kp.aborted, ret |-> key_pair_sign(a, kp.data, msg)]

\* public_key::check(sig, msg) and key_pair::check(sig, msg)
\* (public_key_check_nonzero: the primitive's int result taken as the bool.)
public_key_check_nonzero(a, pk, sig, msg) == 0 # check_fn(a, sig, pk, msg)
public_key_check(a, pk, sig, msg) == 0 = check_fn(a, sig, pk, msg)
key_pair_check(a, kp, sig, msg) == public_key_check(a, key_pair_get_public_key(kp), sig, msg)

(***************************************************************************)
(* The calling program of signatures: it makes a key pair, at random or    *)
(* from a seed, signs a message, and checks the signature, or the          *)
(* signature with one byte changed, with the public key and the key pair.  *)
(***************************************************************************)
Seeds == {[x \in 1..SeedSize |-> (v * x) % 256] : v \in {1, 5}}
SeedWords == [1..(SeedSize \div WordSize) -> {67305985}]
                \cup [1..(SeedSize \div WordSize) -> {0}]
Messages == {<<>>, <<1>>, <<2>>, <<1, 2>>}
NoSeed == [sk |-> <<>>, after |-> <<>>, pub |-> <<>>, sig |-> <<>>]
NoCheck == [sig |-> <<>>, changed |-> 0, byPublicKey |-> FALSE, byKeyPair |-> FALSE]

SigInit ==
    /\ pc = "sig_start"
    /\ sigAlg \in SignatureAlgorithms
    /\ sigPair = <<>>
    /\ sigMsg = <<>>
    /\ sigSig = <<>>
    /\ sigCheck = NoCheck
    /\ sigSeed = NoSeed

SigIdle ==
    /\ sigAlg = "EdDSA"
    /\ sigPair = <<>>
    /\ sigMsg = <<>>
    /\ sigSig = <<>>
    /\ sigCheck = NoCheck
    /\ sigSeed = NoSeed

(***************************************************************************)
(* argon2<Algorithm, Size, NBlocks, NIterations>::create.                  *)
(* The vendored crypto_argon2 is a function of its configuration, its      *)
(* inputs and the hash size; it reads no byte of the work area before it   *)
(* has written it, and with a null work area its behaviour is undefined.   *)
(***************************************************************************)
SaltSize == 16

ArgonAlgorithmNumber(a) ==
    CASE a = "Argon2d" -> 0 [] a = "Argon2i" -> 1 [] a = "Argon2id" -> 2

crypto_argon2(hash_size, work_area, config, inputs) ==
    IF work_area = NULL THEN [undefined |-> TRUE, hash |-> <<>>]
    ELSE [undefined |-> FALSE,
          hash |-> [x \in 1..hash_size |->
                      (Digest(inputs.pass, inputs.pass_size)
                         + 3 * Digest(inputs.salt, inputs.salt_size)
                         + 7 * config.algorithm + config.nb_blocks
                         + 11 * config.nb_passes + 13 * config.nb_lanes + 17 * x) % 256]]

\* Sizes are held in 16-bit limbs, least significant first: a uint32_t in
\* two, a size_t in four.
Limbs32(n) == <<n % LimbBase, n \div LimbBase>>

\* a * b in size_t, and as the arithmetic of unsigned int computes it:
\* modulo 2^32.
uint64_mul(a, b) ==
    LET lo == a[1] * b
        hi == a[2] * b + lo \div LimbBase
    IN  <<lo % LimbBase, hi % LimbBase, hi \div LimbBase, 0>>
uint32_mul(a, b) ==
    LET lo == a[1] * b
        hi == a[2] * b + lo \div LimbBase
    IN  <<lo % LimbBase, hi % LimbBase, 0, 0>>

\* The bytes of work area that crypto_argon2 writes: nb_blocks blocks of
\* 1024 bytes.
BlockSize == 1024
crypto_argon2_work_area_size(nb_blocks) == uint64_mul(Limbs32(nb_blocks), BlockSize)

\* NBlocks * 1024, the argument of make_unique: uint32_t times int.
work_area_bytes(NBlocks) == uint32_mul(Limbs32(NBlocks), 1024)

\* std::make_unique<uint8_t[]>(NBlocks * 1024): the address of a zeroed
\* array, or failure: std::bad_alloc where exceptions are enabled, a null
\* pointer where they are disabled.
WorkAreaAt == 1
AllocOutcomes(exc) ==
    IF exc THEN {"allocated", "bad_alloc"} ELSE {"allocated", "null"}

\* create(password, password_size, s4lt)
\* (argon2_create_unchecked: create without `if (!work_area) abort();`.)
argon2_create_unchecked(t, password, s4lt, alloc) ==
    IF alloc = "bad_alloc"
    THEN [outcome |-> "bad_alloc", hash |-> <<>>, invoked |-> FALSE, work_area |-> NULL,
          work_area_size |-> work_area_bytes(t.NBlocks)]
    ELSE LET work_area == IF alloc = "allocated" THEN WorkAreaAt ELSE NULL
             r == crypto_argon2(t.Size, work_area,
                      [algorithm |-> ArgonAlgorithmNumber(t.Algorithm),
                       nb_blocks |-> t.NBlocks, nb_passes |-> t.NIterations, nb_lanes |-> 1],
                      [pass |-> password, salt |-> s4lt, pass_size |-> Len(password),
                       salt_size |-> SaltSize])
         IN  [outcome |-> IF r.undefined THEN "undefined" ELSE "returned",
              hash |-> r.hash, invoked |-> TRUE, work_area |-> work_area,
              work_area_size |-> work_area_bytes(t.NBlocks)]
argon2_create(t, password, s4lt, alloc) ==
    IF alloc = "bad_alloc"
    THEN [outcome |-> "bad_alloc", hash |-> <<>>, invoked |-> FALSE, work_area |-> NULL,
          work_area_size |-> work_area_bytes(t.NBlocks)]
    ELSE IF alloc = "null"
    THEN [outcome |-> "abort", hash |-> <<>>, invoked |-> FALSE, work_area |-> NULL,
          work_area_size |-> work_area_bytes(t.NBlocks)]
    ELSE LET r == crypto_argon2(t.Size, WorkAreaAt,
                      [algorithm |-> ArgonAlgorithmNumber(t.Algorithm),
                       nb_blocks |-> t.NBlocks, nb_passes |-> t.NIterations, nb_lanes |-> 1],
                      [pass |-> password, salt |-> s4lt, pass_size |-> Len(password),
                       salt_size |-> SaltSize])
         IN  [outcome |-> IF r.undefined THEN "undefined" ELSE "returned",
              hash |-> r.hash, invoked |-> TRUE, work_area |-> WorkAreaAt,
              work_area_size |-> work_area_bytes(t.NBlocks)]

\* create(password, password_size): salt s4lt; s4lt.randomize();
\* return {create(password, password_size, s4lt), s4lt};
\* (argon2_create_pair_stale_salt: the salt returned as it was constructed.)
argon2_create_pair_stale_salt(nd, t, password, rng, alloc) ==
    LET s4lt == randomize(nd, byte_array(SaltSize, 0), SaltSize, rng)
        c == argon2_create(t, password, s4lt.data, alloc)
    IN  IF s4lt.aborted
        THEN [outcome |-> "abort", hash |-> <<>>, invoked |-> FALSE, work_area |-> NULL,
              work_area_size |-> <<0, 0, 0, 0>>, salt |-> <<>>]
        ELSE [outcome |-> c.outcome, hash |-> c.hash, invoked |-> c.invoked,
              work_area |-> c.work_area, work_area_size |-> c.work_area_size,
              salt |-> IF c.outcome = "returned" THEN byte_array(SaltSize, 0) ELSE <<>>]
argon2_create_pair(nd, t, password, rng, alloc) ==
    LET s4lt == randomize(nd, byte_array(SaltSize, 0), SaltSize, rng)
        c == argon2_create(t, password, s4lt.data, alloc)
    IN  IF s4lt.aborted
        THEN [outcome |-> "abort", hash |-> <<>>, invoked |-> FALSE, work_area |-> NULL,
              work_area_size |-> <<0, 0, 0, 0>>, salt |-> <<>>]
        ELSE [outcome |-> c.outcome, hash |-> c.hash, invoked |-> c.invoked,
              work_area |-> c.work_area, work_area_size |-> c.work_area_size,
              salt |-> IF c.outcome = "returned" THEN s4lt.data ELSE <<>>]

(***************************************************************************)
(* The calling program of argon2: it derives hashes from passwords, with   *)
(* a salt of its own or a random one, in a build with or without           *)
(* exceptions; an allocation may fail.                                     *)
(***************************************************************************)
MaxCreates == 2

\* Values of NBlocks: the least, the default, and those around 2^32 / 1024.
BlockCounts == {8, 100000, 4194303, 4194304, 4194305}
ArgonTemplates ==
    [Algorithm : {"Argon2d", "Argon2i", "Argon2id"}, Size : {32, 64}, NBlocks : BlockCounts,
     NIterations : {3}]
Passwords == {<<1>>, <<1, 2>>}
Salts == {byte_array(SaltSize, 0), byte_array(SaltSize, 1)}
SaltWords == {[x \in 1..(SaltSize \div WordSize) |-> 67305985]}
AllSalts == Salts \cup {randomize(TRUE, byte_array(SaltSize, 0), SaltSize, rng).data : rng \in SaltWords}
AllAllocOutcomes == AllocOutcomes(TRUE) \cup AllocOutcomes(FALSE)
NoTemplate == [Algorithm |-> "Argon2i", Size |-> 0, NBlocks |-> 0, NIterations |-> 0]

ArgonInit ==
    /\ pc = "argon"
    /\ argonTemplate \in ArgonTemplates
    /\ exceptions \in BOOLEAN
    /\ argonCalls = <<>>

ArgonIdle ==
    /\ argonTemplate = NoTemplate
    /\ exceptions = TRUE
    /\ argonCalls = <<>>

\* The salts the caller has at hand: its own, and those earlier calls returned.
KnownSalts ==
    Salts \cup {argonCalls[i].salt : i \in {k \in 1..Len(argonCalls) :
                                                  argonCalls[k].outcome = "returned"}}

(***************************************************************************)
(* randomize(dst, size) on raw memory, step by step: the bytes at dst and  *)
(* the bytes around them are cells that hold 0 until randomize writes them *)
(* and 1 afterwards.                                                       *)
(***************************************************************************)
MaxRandSize == 6    \* largest size handed to randomize
RandSlack == 8      \* bytes of memory before dst and after dst + MaxRandSize

RandPaths == {"arc4random", "random_device"}
RandDst == RandSlack + 1
RandMemSize == RandSlack + MaxRandSize + RandSlack
NoRand == [path |-> "none", ndebug |-> FALSE, size |-> 0, i |-> 0, mem |-> <<>>]

\* ::arc4random_buf(dst, size): fills exactly the size bytes at dst.
arc4random_buf(m, dst, size) ==
    [a \in DOMAIN m |-> IF a >= dst /\ a < dst + size THEN 1 ELSE m[a]]

\* unsigned r = rng(); memcpy(i, &r, sizeof(unsigned));
randomize_store(m, i) ==
    [a \in DOMAIN m |-> IF a >= i /\ a < i + WordSize THEN 1 ELSE m[a]]

RandInit ==
    /\ pc = "rand_start"
    /\ rand \in [path : RandPaths, ndebug : BOOLEAN, size : 0..MaxRandSize, i : {0},
                 mem : {[a \in 1..RandMemSize |-> 0]}]

RandIdle == rand = NoRand

(***************************************************************************)
(* session::nonce: construction from a uint64_t, assignment, operator++.   *)
(* A uint64_t is held as four 16-bit limbs, least significant first.       *)
(***************************************************************************)
U64Limbs == 4
NonceLimbs == 12
MaxIncr == 2

Headers == {"Monocypher.hh", "monocypher/encryption.hh"}

\* uint8_t(n & 0xFF) and n >>= 8 on a uint64_t
LowByte(n) == n[1] % 256
ShiftRight8(n) ==
    <<(n[1] \div 256) + (n[2] % 256) * 256,
      (n[2] \div 256) + (n[3] % 256) * 256,
      (n[3] \div 256) + (n[4] % 256) * 256,
      n[4] \div 256>>

\* nonce(uint64_t n): for (i = 0; i < 24; ++i, n >>= 8) (*this)[i] = uint8_t(n & 0xFF);
\* (nonce_uint64_8bytes: the loop stopping after the 8 bytes of n.)
RECURSIVE nonce_loop(_, _, _, _)
nonce_loop(a, i, n, end) ==
    IF i >= end THEN a
    ELSE nonce_loop([a EXCEPT ![i + 1] = LowByte(n)], i + 1, ShiftRight8(n), end)

nonce_uint64_8bytes(a, n) == nonce_loop(a, 0, n, 8)
nonce_uint64(a, n) == nonce_loop(a, 0, n, NonceSize)

\* nonce& operator= (uint64_t n) {*this = nonce(n); return *this;}
\* The temporary is a fresh object, its bytes indeterminate before the loop.
nonce_assign(a, tmp, n) == [bytes |-> nonce_uint64(tmp, n), ret |-> "*this"]

\* Monocypher.hh: for (i = 0; i < 24; ++i) if (++(*this)[i] != 0) break;
\* (increment_nocarry: the loop without the carry into the next byte.)
RECURSIVE increment_loop(_, _)
increment_loop(a, i) ==
    IF i >= NonceSize THEN a
    ELSE LET b == (a[i + 1] + 1) % 256 IN
         IF b # 0 THEN [a EXCEPT ![i + 1] = b]
         ELSE increment_loop([a EXCEPT ![i + 1] = b], i + 1)

\* monocypher/encryption.hh calls increment(), which no header under src/
\* defines: it is taken to be the loop of Monocypher.hh.
increment(a) == increment_loop(a, 0)

increment_nocarry(h, a) == [bytes |-> [a EXCEPT ![1] = (a[1] + 1) % 256], ret |-> "*this"]
nonce_preincrement(h, a) ==
    [bytes |-> IF h = "Monocypher.hh" THEN increment_loop(a, 0) ELSE increment(a),
     ret   |-> "*this"]

(***************************************************************************)
(* The calling program of nonce: it constructs a nonce from a number or    *)
(* from an array, then assigns numbers to it or increments it.             *)
(***************************************************************************)
\* 0x12345678FF (the value of the test), 0, 2^64 - 1, and numbers with one
\* limb 0x12FF or 0xFFFF, or all limbs but one 0xFFFF.
U64Values ==
    {<<30975, 13398, 18, 0>>}
      \cup {[k \in 1..U64Limbs |-> IF k = j THEN v ELSE w] :
                j \in 1..U64Limbs, v \in {4863, 65535}, w \in {0, 65535}}

\* Arrays that begin with k bytes 0xFF, then a byte v, then bytes f.
NonceArrays ==
    {[x \in 1..NonceSize |-> IF x <= k THEN 255 ELSE IF x = k + 1 THEN v ELSE f] :
        k \in 0..NonceSize, v \in {0, 127, 254}, f \in {0, 255}}

\* The bytes of storage before a constructor has run.
Indeterminate == {[x \in 1..NonceSize |-> 170], [x \in 1..NonceSize |-> 255]}

NoLimbs == [k \in 1..U64Limbs |-> 0]

NonceInit ==
    /\ pc = "nonce_start"
    /\ hdr \in Headers
    /\ nonceArg = NoLimbs
    /\ nonceObj \in Indeterminate
    /\ nonceOld = nonceObj
    /\ nonceRet = "none"
    /\ nincr = 0

NonceIdle ==
    /\ nonceArg = NoLimbs
    /\ nonceObj = <<>>
    /\ nonceOld = <<>>
    /\ nonceRet = "none"
    /\ nincr = 0

ValIdle ==
    /\ hdr = "monocypher/encryption.hh"
    /\ NonceIdle
    /\ HashIdle
    /\ KxIdle
    /\ SigIdle
    /\ ArgonIdle
    /\ RandIdle

notNonce == <<cmpVars, sessVars, streamVars, objVars, hdr, hashVars, kxVars, sigVars, argonVars, randVars>>
notHash == <<cmpVars, sessVars, streamVars, objVars, hdr, nonceVars, kxVars, sigVars, argonVars, randVars>>
notKx == <<cmpVars, sessVars, streamVars, objVars, hdr, nonceVars, hashVars, sigVars, argonVars, randVars>>
notArgon == <<cmpVars, sessVars, streamVars, objVars, hdr, nonceVars, hashVars, kxVars, sigVars, randVars>>
notRand == <<cmpVars, sessVars, streamVars, objVars, hdr, nonceVars, hashVars, kxVars, sigVars, argonVars>>
notSig == <<cmpVars, sessVars, streamVars, objVars, hdr, nonceVars, hashVars, kxVars, argonVars, randVars>>

\* session::nonce n(v);
ConstructNonce(v) ==
    /\ pc = "nonce_start"
    /\ pc' = "nonce_uint64"
    /\ nonceArg' = v
    /\ nonceOld' = nonceObj
    /\ nonceObj' = nonce_uint64(nonceObj, v)
    /\ nonceRet' = "none"
    /\ UNCHANGED <<nincr, notNonce>>

\* session::nonce n(a);
ConstructNonceFromArray(a) ==
    /\ pc = "nonce_start"
    /\ pc' = "nonce"
    /\ nonceOld' = nonceObj
    /\ nonceObj' = a
    /\ nonceRet' = "none"
    /\ UNCHANGED <<nonceArg, nincr, notNonce>>

\* n = v;
AssignNonce(v, tmp) ==
    /\ pc = "nonce"
    /\ pc' = "nonce_assigned"
    /\ nonceArg' = v
    /\ nonceOld' = nonceObj
    /\ \E r \in {nonce_assign(nonceObj, tmp, v)} :
         /\ nonceObj' = r.bytes
         /\ nonceRet' = r.ret
    /\ UNCHANGED <<nincr, notNonce>>

\* ++n;
IncrementNonce ==
    /\ pc \in {"nonce", "nonce_uint64", "nonce_assigned", "nonce_incremented"}
    /\ nincr < MaxIncr
    /\ pc' = "nonce_incremented"
    /\ nincr' = nincr + 1
    /\ nonceOld' = nonceObj
    /\ \E r \in {nonce_preincrement(hdr, nonceObj)} :
         /\ nonceObj' = r.bytes
         /\ nonceRet' = r.ret
    /\ UNCHANGED <<nonceArg, notNonce>>

NonceNext ==
    \/ \E v \in U64Values : ConstructNonce(v)
    \/ \E a \in NonceArrays : ConstructNonceFromArray(a)
    \/ \E v \in U64Values, tmp \in Indeterminate : AssignNonce(v, tmp)
    \/ IncrementNonce

\* typename hash<A>::builder b;
NewBuilder ==
    /\ pc = "hash_start"
    /\ pc' = "hashing"
    /\ hashBuilder' = builder(hashAlg)
    /\ UNCHANGED <<hashAlg, hashKey, hashFed, hashOut, notHash>>

\* typename hash<A>::mac_builder b(key);
NewMacBuilder(k) ==
    /\ pc = "hash_start"
    /\ hashAlg \in MacAlgorithms
    /\ hashKey' = k
    /\ \E b \in {mac_builder(hashAlg, k)} :
         /\ hashBuilder' = b
         /\ pc' = IF b.outcome = "constructed" THEN "hashing" ELSE "hash_thrown"
    /\ UNCHANGED <<hashAlg, hashFed, hashOut, notHash>>

\* h = hash<A>::createMAC(msg, key);
\* The exception of a key of the wrong size cannot leave the noexcept
\* createMAC: the program ends in std::terminate.
CreateMAC(k, msg) ==
    /\ pc = "hash_start"
    /\ hashAlg \in MacAlgorithms
    /\ hashKey' = k
    /\ hashFed' = <<msg>>
    /\ \E r \in {hash_createMAC(hashAlg, msg, k)} :
         /\ hashOut' = r.hash
         /\ pc' = IF r.outcome = "returned" THEN "mac_created" ELSE "terminated"
    /\ UNCHANGED <<hashAlg, hashBuilder, notHash>>

\* b.update(piece);
Update(piece) ==
    /\ pc = "hashing"
    /\ Len(hashFed) < MaxPieces
    /\ Len(Concat(hashFed, Len(hashFed))) + Len(piece) <= MaxMsgLen
    /\ hashBuilder' = _builder_update(hashAlg, hashBuilder, piece)
    /\ hashFed' = Append(hashFed, piece)
    /\ UNCHANGED <<pc, hashAlg, hashKey, hashOut, notHash>>

\* h = b.final();
Final ==
    /\ pc = "hashing"
    /\ pc' = "hashed"
    /\ hashOut' = _builder_final(hashAlg, hashBuilder)
    /\ UNCHANGED <<hashAlg, hashKey, hashBuilder, hashFed, notHash>>

HashNext ==
    \/ NewBuilder
    \/ \E k \in HashKeys : NewMacBuilder(k)
    \/ \E k \in HashKeys, msg \in HashPieces : CreateMAC(k, msg)
    \/ \E piece \in HashPieces : Update(piece)
    \/ Final

\* pub = kx.get_public_key();
GetPublicKey(p) ==
    /\ pc = "exchange"
    /\ kxPublic[p] = <<>>
    /\ \E r \in {get_public_key(kxAlg, kxSecret[p])} :
         /\ kxSecret' = [kxSecret EXCEPT ![p] = r.this]
         /\ kxPublic' = [kxPublic EXCEPT ![p] = r.ret]
    /\ UNCHANGED <<pc, kxAlg, kxInitial, kxShared, kxGot, notKx>>

\* shared = kx.get_shared_secret(their_pub);
GetSharedSecret(p) ==
    /\ pc = "exchange"
    /\ kxPublic[Peer(p)] # <<>>
    /\ kxShared[p] = <<>>
    /\ \E r \in {get_shared_secret(kxAlg, kxSecret[p], kxPublic[Peer(p)])} :
         /\ kxSecret' = [kxSecret EXCEPT ![p] = r.this]
         /\ kxShared' = [kxShared EXCEPT ![p] = r.ret]
    /\ UNCHANGED <<pc, kxAlg, kxInitial, kxPublic, kxGot, notKx>>

\* key = kx.get_secret_key();
GetSecretKey(p) ==
    /\ pc = "exchange"
    /\ kxGot[p] = <<>>
    /\ \E r \in {get_secret_key(kxAlg, kxSecret[p])} :
         /\ kxSecret' = [kxSecret EXCEPT ![p] = r.this]
         /\ kxGot' = [kxGot EXCEPT ![p] = r.ret]
    /\ UNCHANGED <<pc, kxAlg, kxInitial, kxPublic, kxShared, notKx>>

KxNext ==
    \/ \E p \in Parties : GetPublicKey(p)
    \/ \E p \in Parties : GetSharedSecret(p)
    \/ \E p \in Parties : GetSecretKey(p)

\* auto keyPair = key_pair<A>::generate();
Generate(rng) ==
    /\ pc = "sig_start"
    /\ \E r \in {key_pair_generate(ndebug, sigAlg, [x \in 1..SeedSize |-> 170], rng)} :
         /\ pc' = IF r.aborted THEN "aborted" ELSE "key_pair"
         /\ sigPair' = r.data
    /\ UNCHANGED <<sigAlg, sigMsg, sigSig, sigCheck, sigSeed, notSig>>

\* key_pair<A> keyPair(seed);
KeyPairFromSeed(s) ==
    /\ pc = "sig_start"
    /\ \E r \in {key_pair_from_seed(ndebug, sigAlg, s)} :
         /\ pc' = IF r.aborted THEN "aborted" ELSE "key_pair"
         /\ sigPair' = r.data
         /\ sigSeed' = [NoSeed EXCEPT !.sk = s, !.after = r.sk]
    /\ UNCHANGED <<sigAlg, sigMsg, sigSig, sigCheck, notSig>>

\* pub = seed.get_public_key();  for the seed the pair was made from.
SeedGetPublicKey ==
    /\ pc \in {"key_pair", "signed"}
    /\ sigSeed.sk # <<>>
    /\ sigSeed.pub = <<>>
    /\ \E r \in {seed_get_public_key(ndebug, sigAlg, sigSeed.after)} :
         /\ pc' = IF r.aborted THEN "aborted" ELSE pc
         /\ sigSeed' = [sigSeed EXCEPT !.pub = r.ret]
    /\ UNCHANGED <<sigAlg, sigPair, sigMsg, sigSig, sigCheck, notSig>>

\* sig = seed.sign(msg);  for the seed the pair was made from and the
\* message the pair signed.
SeedSign ==
    /\ pc = "signed"
    /\ sigSeed.sk # <<>>
    /\ sigSeed.sig = <<>>
    /\ \E r \in {seed_sign(ndebug, sigAlg, sigSeed.after, sigMsg)} :
         /\ pc' = IF r.aborted THEN "aborted" ELSE pc
         /\ sigSeed' = [sigSeed EXCEPT !.sig = r.ret]
    /\ UNCHANGED <<sigAlg, sigPair, sigMsg, sigSig, sigCheck, notSig>>

\* sig = keyPair.sign(msg);
Sign(msg) ==
    /\ pc = "key_pair"
    /\ pc' = "signed"
    /\ sigMsg' = msg
    /\ sigSig' = key_pair_sign(sigAlg, sigPair, msg)
    /\ UNCHANGED <<sigAlg, sigPair, sigCheck, sigSeed, notSig>>

\* The caller changes byte j of a copy of the signature, or leaves it (j = 0),
\* and calls keyPair.get_public_key().check(sig, msg) and
\* keyPair.check(sig, msg).
Check(j) ==
    /\ pc = "signed"
    /\ pc' = "checked"
    /\ \E sig \in {IF j = 0 THEN sigSig ELSE Replaced(sigSig, j)} :
         sigCheck' = [sig |-> sig, changed |-> j,
                      byPublicKey |-> public_key_check(sigAlg,
                                          key_pair_get_public_key(sigPair), sig, sigMsg),
                      byKeyPair |-> key_pair_check(sigAlg, sigPair, sig, sigMsg)]
    /\ UNCHANGED <<sigAlg, sigPair, sigMsg, sigSig, sigSeed, notSig>>

SigNext ==
    \/ \E rng \in SeedWords : Generate(rng)
    \/ \E s \in Seeds : KeyPairFromSeed(s)
    \/ SeedGetPublicKey
    \/ SeedSign
    \/ \E msg \in Messages : Sign(msg)
    \/ \E j \in {0, 1, SeedSize, SeedSize + 1, SignatureSize} : Check(j)

\* h = argon2<...>::create(password, salt);
\* A std::bad_alloc is caught by the caller, who goes on; abort() ends the
\* program.
ArgonCreate(password, s4lt, alloc) ==
    /\ pc = "argon"
    /\ Len(argonCalls) < MaxCreates
    /\ s4lt \in KnownSalts
    /\ alloc \in AllocOutcomes(exceptions)
    /\ \E r \in {argon2_create(argonTemplate, password, s4lt, alloc)} :
         /\ pc' = IF r.outcome \in {"abort", "undefined"} THEN "aborted" ELSE "argon"
         /\ argonCalls' = Append(argonCalls,
                [password |-> password, salt |-> s4lt, random |-> FALSE, alloc |-> alloc,
                 outcome |-> r.outcome, hash |-> r.hash, invoked |-> r.invoked,
                 work_area |-> r.work_area, work_area_size |-> r.work_area_size])
    /\ UNCHANGED <<argonTemplate, exceptions, notArgon>>

\* auto [h, salt] = argon2<...>::create(password);
ArgonCreateRandomSalt(password, rng, alloc) ==
    /\ pc = "argon"
    /\ Len(argonCalls) < MaxCreates
    /\ alloc \in AllocOutcomes(exceptions)
    /\ \E r \in {argon2_create_pair(ndebug, argonTemplate, password, rng, alloc)} :
         /\ pc' = IF r.outcome \in {"abort", "undefined"} THEN "aborted" ELSE "argon"
         /\ argonCalls' = Append(argonCalls,
                [password |-> password, salt |-> r.salt, random |-> TRUE, alloc |-> alloc,
                 outcome |-> r.outcome, hash |-> r.hash, invoked |-> r.invoked,
                 work_area |-> r.work_area, work_area_size |-> r.work_area_size])
    /\ UNCHANGED <<argonTemplate, exceptions, notArgon>>

ArgonNext ==
    \/ \E password \in Passwords, s4lt \in AllSalts, alloc \in AllAllocOutcomes :
            ArgonCreate(password, s4lt, alloc)
    \/ \E password \in Passwords, rng \in SaltWords, alloc \in AllAllocOutcomes :
            ArgonCreateRandomSalt(password, rng, alloc)

\* randomize(dst, size) where MONOCYPHER_HAS_ARC4RANDOM is defined.
RandomizeArc4 ==
    /\ pc = "rand_start"
    /\ rand.path = "arc4random"
    /\ rand' = [rand EXCEPT !.mem = arc4random_buf(rand.mem, RandDst, rand.size)]
    /\ pc' = "rand_returned"
    /\ UNCHANGED notRand

\* assert(size % sizeof(unsigned) == 0); std::random_device rng;
\* auto start = (uint8_t*)dst, end = start + size; i = start;
RandomizeEnter ==
    /\ pc = "rand_start"
    /\ rand.path = "random_device"
    /\ IF ~rand.ndebug /\ rand.size % WordSize # 0
       THEN pc' = "aborted" /\ UNCHANGED rand
       ELSE pc' = "rand_loop" /\ rand' = [rand EXCEPT !.i = RandDst]
    /\ UNCHANGED notRand

\* One turn of the loop, i != end: a word is stored at i and i += sizeof(unsigned).
\* A store that leaves the memory of the model is followed no further.
RandomizeStore ==
    /\ pc = "rand_loop"
    /\ rand.i # RandDst + rand.size
    /\ IF rand.i + WordSize - 1 > RandMemSize
       THEN pc' = "rand_overrun" /\ UNCHANGED rand
       ELSE /\ pc' = "rand_loop"
            /\ rand' = [rand EXCEPT !.mem = randomize_store(rand.mem, rand.i),
                                    !.i = rand.i + WordSize]
    /\ UNCHANGED notRand

\* i == end: the loop ends and randomize returns.
RandomizeReturn ==
    /\ pc = "rand_loop"
    /\ rand.i = RandDst + rand.size
    /\ pc' = "rand_returned"
    /\ UNCHANGED <<rand, notRand>>

RandNext ==
    \/ RandomizeArc4
    \/ RandomizeEnter
    \/ RandomizeStore
    \/ RandomizeReturn

(***************************************************************************)
(* Specifications.                                                         *)
(***************************************************************************)
Init ==
    \/ SessInit /\ StreamIdle /\ ObjIdle /\ CmpIdle /\ ValIdle
    \/ StreamInit /\ ObjIdle /\ CmpIdle /\ ValIdle
    \/ ObjInit /\ StreamIdle /\ CmpIdle /\ ValIdle

Next == SessNext \/ StreamNext \/ ObjNext

Spec == Init /\ [][Next]_vars

InitCompare == CmpInit /\ SessIdle /\ StreamIdle /\ ObjIdle /\ ValIdle
NextCompare == CmpNext
SpecCompare == InitCompare /\ [][NextCompare]_vars

InitValues ==
    /\ SessIdle /\ StreamIdle /\ ObjIdle /\ CmpIdle
    /\ \/ NonceInit /\ HashIdle /\ KxIdle /\ SigIdle /\ ArgonIdle /\ RandIdle
       \/ /\ hdr = "monocypher/encryption.hh"
          /\ \/ HashInit /\ NonceIdle /\ KxIdle /\ SigIdle /\ ArgonIdle /\ RandIdle
             \/ KxInit /\ NonceIdle /\ HashIdle /\ SigIdle /\ ArgonIdle /\ RandIdle
             \/ SigInit /\ NonceIdle /\ HashIdle /\ KxIdle /\ ArgonIdle /\ RandIdle
             \/ ArgonInit /\ NonceIdle /\ HashIdle /\ KxIdle /\ SigIdle /\ RandIdle
             \/ RandInit /\ NonceIdle /\ HashIdle /\ KxIdle /\ SigIdle /\ ArgonIdle
NextValues == NonceNext \/ HashNext \/ KxNext \/ SigNext \/ ArgonNext \/ RandNext
SpecValues == InitValues /\ [][NextValues]_vars

\* The first `size` bytes of the two buffers are equal.
CmpEqual == \A k \in 1..cmpSize : cmpA[k] = cmpB[k]

\* C8: constant_time_compare and operator== return true exactly when the
\* first `size` bytes of the two buffers are equal, and operator!= is the
\* negation of operator==.
C8_CompareExact ==
    /\ pc \in {"compared", "array_eq"} => (cmpRet <=> CmpEqual)
    /\ pc = "array_ne" => (cmpRet <=> ~CmpEqual)

\* C8 witness: a size with a remainder after the 64/32/16-byte blocks whose
\* only difference lies in the remainder was compared and found different,
\* and so was a pair of 24-byte arrays that differ only in the last 8 bytes.
C8_Witness ==
    \/ /\ pc = "compared" /\ cmpSize = 64 + 32 + 16 + 5 /\ ~cmpRet
       /\ \A k \in 1..(64 + 32 + 16) : cmpA[k] = cmpB[k]
    \/ /\ pc = "array_eq" /\ cmpSize = 24 /\ ~cmpRet
       /\ \A k \in 1..16 : cmpA[k] = cmpB[k]

\* The comparisons that run for buffers of this size that are equal.
CmpTraceOfSize ==
    IF pc = "compared"
    THEN constant_time_compare(cmpA, cmpA, cmpSize).trace
    ELSE ArrayEq(cmpA, cmpA, cmpSize).trace

\* C9: the sequence of primitive block comparisons executed depends only on
\* the size, never on the contents of the buffers.
C9_ConstantTime ==
    pc \in {"compared", "array_eq", "array_ne"} => cmpTrace = CmpTraceOfSize

(***************************************************************************)
(* The one-shot API: lock / unlock.                                        *)
(***************************************************************************)
\* The last call was an unlock, and it was given what lock was given and
\* returned / something else in the place of the key, nonce, mac or ciphertext.
UnlockOfSealed ==
    /\ call.op = "unlock"
    /\ call.key = key /\ call.nonce = nonce
    /\ call.mac = sealed.mac /\ call.ct = sealed.ct
UnlockOfAltered ==
    /\ call.op = "unlock"
    /\ \/ call.key # key \/ call.nonce # nonce
       \/ call.mac # sealed.mac \/ call.ct # sealed.ct

\* C1: unlock with the key, nonce and additional data lock was given and the
\* (mac, ciphertext) lock produced returns true, and the output holds the
\* plaintext, byte for byte and of the same length; for both algorithms, every
\* length from 0, with the output in place, overlapping or apart.
C1_UnlockInvertsLock ==
    (UnlockOfSealed /\ call.ad = sealed.ad)
        => /\ pc = "unlocked"
           /\ ret.ok
           /\ ret.out.size = Len(plain)
           /\ ReadCells(mem, ret.out.data, ret.out.size) = plain

C1_Witness ==
    /\ UnlockOfSealed /\ call.ad = sealed.ad
    /\ pc = "unlocked" /\ ret.ok
    /\ Len(plain) = MaxLen
    /\ call.buf.data = call.at
    /\ alg = "XSalsa20_Poly1305"

\* C2: unlock with a mac or a ciphertext that differs in a byte, a ciphertext
\* of another length, another nonce or another key returns false, and returns:
\* the call does not abort.
C2_UnlockRejectsAltered ==
    UnlockOfAltered => (pc = "unlocked" /\ ~ret.ok)

C2_Witness ==
    /\ UnlockOfAltered
    /\ pc = "unlocked" /\ ~ret.ok
    /\ Len(call.ct) = Len(sealed.ct) - 1
    /\ Len(call.ct) > 0

(***************************************************************************)
(* The "box" API and the stream API.                                       *)
(***************************************************************************)
\* C3: box of an n-byte plaintext into a buffer of at least n + 16 bytes, by
\* an encryption_key or by an encrypted_writer, leaves in the buffer the 16
\* bytes of the mac that lock / write returns for that plaintext, followed by
\* the n bytes of ciphertext lock / write produces, and returns the buffer's
\* pointer with the size n + 16.
C3_BoxLayout ==
    [][(call'.op = "box" /\ pc' \in {"boxed", "writing"}
            /\ call'.buf.size >= Len(plain') + MacSize)
        => LET n   == Len(plain')
               out == call'.buf.data
               m0  == memcpy(mem, SrcAt, plain')
               ref == IF pc' = "boxed"
                      THEN lock(alg, ndebug, m0, key, nonce, SrcAt, n, <<>>, out + MacSize)
                      ELSE encrypted_writer_write(writer.ctx, m0, SrcAt, n, call'.ad,
                                                  out + MacSize)
           IN  /\ sealed'.out = [data |-> out, size |-> n + MacSize]
               /\ ReadCells(mem', out, MacSize) = ref.mac
               /\ ReadCells(mem', out + MacSize, n) = ReadCells(ref.mem, out + MacSize, n)]_vars

C3_Witness ==
    /\ call.op = "box" /\ pc = "writing"
    /\ Len(plain) = MaxLen
    /\ call.buf = [data |-> SrcAt - MacSize, size |-> MaxLen + MacSize]
    /\ sealed.out = call.buf
    /\ Len(wire) = 2

\* The last call was an unbox of `UnboxSize` bytes; it was given what box
\* produced (by the key under the same nonce; by the writer at the position
\* the reader is at, with the same additional data).
UnboxSize == Len(call.mac) + Len(call.ct)
UnboxOfSealed ==
    IF call.idx = 0
    THEN /\ call.key = key /\ call.nonce = nonce
         /\ call.mac = sealed.mac /\ call.ct = sealed.ct
    ELSE /\ call.idx = call.pos + 1
         /\ call.mac = wire[call.idx].mac /\ call.ct = wire[call.idx].ct
         /\ call.ad = wire[call.idx].ad
UnboxResultAsDocumented ==
    /\ pc # "aborted"
    /\ (ret.out = NullBytes) <=> (UnboxSize < MacSize \/ ~UnboxOfSealed)
    /\ (UnboxSize >= MacSize /\ UnboxOfSealed)
           => ret.out = [data |-> call.buf.data, size |-> UnboxSize - MacSize]

\* C4 as stated: unbox, by an encryption_key or an encrypted_reader, returns
\* {nullptr, 0} exactly when the boxed input is shorter than 16 bytes or is
\* not authentic, and the caller's pointer with size - 16 otherwise; the
\* output buffer being large enough for the output.
C4_UnboxResult ==
    (call.op = "unbox" /\ call.buf.size >= unboxedSize(UnboxSize))
        => UnboxResultAsDocumented

\* C4, amended: the same for a call whose output pointer is not null.
C4_UnboxResultNonNull ==
    (call.op = "unbox" /\ call.buf.size >= unboxedSize(UnboxSize)
        /\ call.buf.data # NULL)
        => UnboxResultAsDocumented

C4_Witness ==
    /\ call.op = "unbox" /\ call.idx = 2
    /\ call.buf.data # NULL
    /\ UnboxOfSealed
    /\ UnboxSize = MacSize + MaxLen
    /\ ret.out = [data |-> call.buf.data, size |-> MaxLen]

\* C5 as stated: key.unbox(nonce, key.box(nonce, plaintext)) into an output
\* buffer of at least n bytes returns a non-null output_bytes of size n that
\* holds the plaintext.
C5_UnboxInvertsBox ==
    (call.op = "unbox" /\ call.idx = 0 /\ UnboxOfSealed /\ call.buf.size >= Len(plain))
        => /\ pc = "unboxed"
           /\ ret.out.data # NULL
           /\ ret.out.size = Len(plain)
           /\ ReadCells(mem, ret.out.data, ret.out.size) = plain

\* C5, amended: the same for a call whose output pointer is not null.
C5_UnboxInvertsBoxNonNull ==
    (call.op = "unbox" /\ call.idx = 0 /\ UnboxOfSealed /\ call.buf.size >= Len(plain)
        /\ call.buf.data # NULL)
        => /\ pc = "unboxed"
           /\ ret.out = [data |-> call.buf.data, size |-> Len(plain)]
           /\ ReadCells(mem, ret.out.data, ret.out.size) = plain

C5_Witness ==
    /\ call.op = "unbox" /\ call.idx = 0 /\ UnboxOfSealed
    /\ pc = "unboxed"
    /\ Len(plain) = MaxLen
    /\ call.buf = [data |-> sealed.at + MacSize, size |-> MaxLen]
    /\ ret.out = call.buf
    /\ alg = "XSalsa20_Poly1305"

\* The additional data the last unlock / read was given is not the one lock /
\* write was given for that (mac, ciphertext).
OtherAdditionalData ==
    \/ call.op = "unlock" /\ call.ad # sealed.ad
    \/ call.op = "read" /\ call.ad # wire[call.idx].ad

\* C6 as stated: unlock / read given other additional data than lock / write
\* return false.
C6_AdditionalDataBound ==
    OtherAdditionalData => (pc # "aborted" /\ ~ret.ok)

\* C6, amended: so it is for XChaCha20_Poly1305; for XSalsa20_Poly1305, unlock
\* of what lock produced, with whatever additional data, returns true in a
\* build with NDEBUG, and in a debug build stops at an assertion when the
\* additional data is not empty.
C6_AdditionalDataBoundXChaCha ==
    /\ (alg = "XChaCha20_Poly1305" /\ OtherAdditionalData)
           => (pc # "aborted" /\ ~ret.ok)
    /\ (alg = "XSalsa20_Poly1305" /\ UnlockOfSealed)
           => IF ndebug \/ call.ad = <<>>
              THEN pc = "unlocked" /\ ret.ok
              ELSE pc = "aborted"

C6_Witness ==
    /\ call.op = "read" /\ call.idx = 2 /\ call.pos = 1
    /\ call.mac = wire[2].mac /\ call.ct = wire[2].ct
    /\ call.ad = <<>> /\ wire[2].ad = <<1>>
    /\ ~ret.ok

\* C10: a read that is given the next chunk of the wire, as it was written,
\* returns true and puts out the chunk's plaintext - whether or not the
\* writer wrote chunks after it.
C10_StreamRoundTrip ==
    (call.op = "read" /\ call.idx = call.pos + 1
        /\ call.mac = wire[call.idx].mac /\ call.ct = wire[call.idx].ct
        /\ call.ad = wire[call.idx].ad)
        => /\ pc = "reading"
           /\ ret.ok
           /\ nread = call.idx
           /\ ret.out.size = Len(wire[call.idx].plain)
           /\ ReadCells(mem, ret.out.data, ret.out.size) = wire[call.idx].plain

C10_Witness ==
    /\ call.op = "read" /\ ret.ok
    /\ call.idx = 2 /\ nread = 2
    /\ Len(wire[1].plain) > 0 /\ Len(wire[2].plain) > 0

(***************************************************************************)
(* Destructors.                                                            *)
(***************************************************************************)
\* C7: once the destructor of a secret_byte_array, of an encrypted_writer or
\* of an encrypted_reader has run, every byte of the array / of the stream
\* context is zero, whatever was done with the object before.
C7_WipedOnDestruction ==
    /\ secret.state = "destroyed" => \A x \in DOMAIN secret.data : secret.data[x] = 0
    /\ writer.state = "destroyed" => ContextIsZero(writer.ctx)
    /\ reader.state = "destroyed" => ContextIsZero(reader.ctx)

C7_Witness ==
    /\ secret.state = "destroyed"
    /\ Len(secret.data) = 16
    /\ \A x \in DOMAIN call.ct : call.ct[x] # 0

\* The last call handed the reader a chunk of the wire, unchanged, at a
\* position other than the one the writer produced it at.
OutOfPlace ==
    /\ call.op \in {"read", "unbox"}
    /\ call.idx \in 1..Len(wire)
    /\ call.idx # call.pos + 1
    /\ call.mac = wire[call.idx].mac
    /\ call.ct = wire[call.idx].ct
    /\ call.ad = wire[call.idx].ad

\* C11: a chunk handed to an encrypted_reader at a position other than the
\* one at which the writer produced it (a later chunk before an earlier one, a
\* skipped chunk, an accepted chunk presented again) is rejected: read
\* returns false, unbox returns {nullptr, 0}.
C11_ReorderRejected ==
    OutOfPlace => (~ret.ok /\ (call.op = "unbox" => ret.out = NullBytes))

\* A chunk the reader had accepted is presented a second time and rejected.
C11_Witness ==
    /\ OutOfPlace
    /\ call.idx = 1
    /\ call.pos = 1
    /\ pc = "rejected"

\* Byte i (from 0) of the little-endian encoding of the uint64_t n:
\* (n >> 8*i) & 0xFF, and zero from byte 8 on.
LittleEndianByte(n, i) ==
    IF i >= 2 * U64Limbs THEN 0
    ELSE (n[(i \div 2) + 1] \div (IF i % 2 = 0 THEN 1 ELSE 256)) % 256

\* C12: nonce(uint64_t n) holds n in little-endian encoding: byte i is
\* (n >> 8*i) & 0xFF for i in 0..7 and bytes 8..23 are zero; assigning a
\* uint64_t to a nonce gives the same bytes.
C12_NonceLittleEndian ==
    pc \in {"nonce_uint64", "nonce_assigned"} =>
        /\ Len(nonceObj) = NonceSize
        /\ \A i \in 0..(NonceSize - 1) : nonceObj[i + 1] = LittleEndianByte(nonceArg, i)

\* The number of the test, 0x12345678FF, was assigned over a nonce that held
\* other bytes.
C12_Witness ==
    /\ pc = "nonce_assigned"
    /\ nonceArg = <<30975, 13398, 18, 0>>
    /\ nonceOld[NonceSize] = 255
    /\ SubSeq(nonceObj, 1, 6) = <<255, 120, 86, 52, 18, 0>>

\* A nonce as a 192-bit little-endian integer, in 16-bit limbs, and that
\* integer plus one, modulo 2^192.
NonceValue(a) == [k \in 1..NonceLimbs |-> a[2 * k - 1] + 256 * a[2 * k]]
CarryInto(l, k) == \A j \in 1..(k - 1) : l[j] = LimbBase - 1
PlusOne(l) ==
    [k \in 1..NonceLimbs |-> IF CarryInto(l, k) THEN (l[k] + 1) % LimbBase ELSE l[k]]

\* C13: ++nonce increments the nonce as a 192-bit little-endian integer,
\* modulo 2^192, and returns a reference to the same nonce.
C13_NonceIncrement ==
    pc = "nonce_incremented" =>
        /\ NonceValue(nonceObj) = PlusOne(NonceValue(nonceOld))
        /\ nonceRet = "*this"

\* The carry ran across the byte-8 boundary into byte 9.
C13_Witness ==
    /\ pc = "nonce_incremented"
    /\ \A x \in 1..9 : nonceOld[x] = 255
    /\ nonceOld[10] = 127
    /\ nonceObj[9] = 0
    /\ nonceObj[10] = 128

\* The message a builder was fed, in one piece.
HashMessage == Concat(hashFed, Len(hashFed))

\* The hash is the one-shot hash of the whole message; the MAC is the
\* one-shot MAC of the whole message under the builder's key.
HashAsOneShot == hash_create(hashAlg, HashMessage) = [outcome |-> "returned", hash |-> hashOut]
MacAsOneShot ==
    hash_createMAC(hashAlg, HashMessage, hashKey) = [outcome |-> "returned", hash |-> hashOut]

\* C14 as stated: for every algorithm, message, split and key, the builder's
\* final() is hash::create of the whole message, and mac_builder(key) gives a
\* MAC that is hash::createMAC of the whole message with that key.
C14_IncrementalHash ==
    /\ (pc = "hashed" /\ ~hashBuilder.keyed) => HashAsOneShot
    /\ (pc = "hashed" /\ hashBuilder.keyed) => MacAsOneShot
    /\ (pc # "hash_start" /\ hashBuilder.keyed) =>
           /\ hashBuilder.outcome = "constructed"
           /\ hash_createMAC(hashAlg, <<>>, hashKey).outcome = "returned"

\* C14 amended: the hash half for all four algorithms; the MAC half for the
\* algorithms that have a mac (not SHA-256) and, for BLAKE3, a 32-byte key.
\* A BLAKE3 mac_builder with a key of another size throws
\* std::invalid_argument and createMAC with it ends in std::terminate.
C14_IncrementalHashWhereSupported ==
    /\ (pc = "hashed" /\ ~hashBuilder.keyed) => HashAsOneShot
    /\ (pc = "hashed" /\ hashBuilder.keyed) => (hashAlg \in MacAlgorithms /\ MacAsOneShot)
    /\ (pc # "hash_start" /\ hashBuilder.keyed) =>
           IF hashAlg.name = "BLAKE3" /\ Len(hashKey) # Blake3KeySize
           THEN /\ pc = "hash_thrown"
                /\ hashBuilder.outcome = "invalid_argument"
                /\ hash_createMAC(hashAlg, <<>>, hashKey).outcome = "terminate"
           ELSE /\ hashBuilder.outcome = "constructed"
                /\ hash_createMAC(hashAlg, <<>>, hashKey).outcome = "returned"

\* A BLAKE3 MAC was built from three pieces, one of them empty.
C14_Witness ==
    /\ pc = "hashed"
    /\ hashBuilder.keyed
    /\ hashAlg.name = "BLAKE3"
    /\ Len(hashFed) = MaxPieces
    /\ \E i \in 1..Len(hashFed) : hashFed[i] = <<>>
    /\ Len(HashMessage) = MaxMsgLen
    /\ MacAsOneShot

\* C15: two key_exchange objects of the same algorithm compute the same
\* shared secret from each other's public keys, and get_public_key and
\* get_shared_secret leave the stored secret key as constructed:
\* get_secret_key returns the key the object was constructed with.
C15_SharedSecretAgrees ==
    pc = "exchange" =>
        /\ (kxShared["A"] # <<>> /\ kxShared["B"] # <<>>) => kxShared["A"] = kxShared["B"]
        /\ kxSecret = kxInitial
        /\ \A p \in Parties : kxGot[p] # <<>> => kxGot[p] = kxInitial[p]

\* Two parties with different secret keys have both computed the shared
\* secret, and one asked for its secret key afterwards.
C15_Witness ==
    /\ pc = "exchange"
    /\ kxAlg = "X25519_HChaCha20"
    /\ kxInitial["A"] # kxInitial["B"]
    /\ kxPublic["A"] # kxPublic["B"]
    /\ kxShared["A"] # <<>>
    /\ kxShared["B"] = kxShared["A"]
    /\ kxGot["A"] = kxInitial["A"]

\* C16: the signature key_pair::sign returns is accepted by
\* public_key::check and key_pair::check under the pair's public key, and
\* both return false once a byte of the signature has been changed; for
\* EdDSA and Ed25519.
C16_SignThenCheck ==
    pc = "checked" =>
        /\ sigCheck.changed = 0 => (sigCheck.byPublicKey /\ sigCheck.byKeyPair)
        /\ sigCheck.changed # 0 => (~sigCheck.byPublicKey /\ ~sigCheck.byKeyPair)

\* An Ed25519 signature by a generated key pair was rejected after its last
\* byte was changed.
C16_Witness ==
    /\ pc = "checked"
    /\ sigAlg = "Ed25519"
    /\ sigPair[5] = 1
    /\ sigMsg = <<1, 2>>
    /\ sigCheck.changed = SignatureSize
    /\ sigCheck.sig # sigSig
    /\ ~sigCheck.byPublicKey

\* The calls of create that returned.
Returned == {i \in 1..Len(argonCalls) : argonCalls[i].outcome = "returned"}

\* C17: create(password) returns a pair (hash, salt) such that
\* create(password, salt) returns the same hash, and create(password, salt)
\* is a function of the password bytes, the salt bytes and the template
\* parameters: calls with equal inputs return equal hashes.
C17_ArgonReproducible ==
    \A i \in Returned, j \in Returned :
        (argonCalls[i].password = argonCalls[j].password
           /\ argonCalls[i].salt = argonCalls[j].salt)
        => argonCalls[i].hash = argonCalls[j].hash

\* create(password) returned a hash and a random salt, and
\* create(password, salt) was then called with them.
C17_Witness ==
    /\ Len(argonCalls) = 2
    /\ Returned = {1, 2}
    /\ argonCalls[1].random
    /\ ~argonCalls[2].random
    /\ argonCalls[1].salt \notin Salts
    /\ argonCalls[2].salt = argonCalls[1].salt
    /\ argonCalls[2].password = argonCalls[1].password
    /\ Len(argonCalls[2].hash) = argonTemplate.Size

\* C18: create never returns a hash when the allocation of the work area
\* fails: the call ends by std::bad_alloc or, with exceptions disabled, by
\* abort(), and crypto_argon2 is never invoked with a null work area.
C18_NoHashWithoutWorkArea ==
    \A i \in 1..Len(argonCalls) :
        /\ argonCalls[i].alloc # "allocated" =>
              /\ argonCalls[i].outcome = (IF exceptions THEN "bad_alloc" ELSE "abort")
              /\ argonCalls[i].hash = <<>>
              /\ ~argonCalls[i].invoked
        /\ argonCalls[i].invoked => argonCalls[i].work_area # NULL

\* In a build without exceptions a second call found no memory and aborted.
C18_Witness ==
    /\ ~exceptions
    /\ pc = "aborted"
    /\ Len(argonCalls) = 2
    /\ argonCalls[1].outcome = "returned"
    /\ argonCalls[2].alloc = "null"
    /\ argonCalls[2].outcome = "abort"

\* What the padded secretbox convention makes of the plaintext: the output of
\* the primitive for 32 zero bytes followed by the plaintext, length n + 32.
PaddedBox == crypto_secretbox(ZeroCells(SecretboxPad) \o plain, Len(plain) + SecretboxPad, nonce, key).c

\* What the convention makes of the (mac, ciphertext) of the last unlock: the
\* primitive's opening of 16 zero bytes || mac || ciphertext, length n + 32.
PaddedOpen ==
    crypto_secretbox_open(ZeroCells(SecretboxPad - MacSize) \o call.mac \o call.ct,
                          Len(call.ct) + SecretboxPad, call.nonce, call.key)

\* C19: XSalsa20_Poly1305 follows the padded secretbox convention.  The mac
\* that lock returns is bytes 16..31, and the ciphertext bytes 32..n+31, of
\* the primitive's output for 32 zero bytes followed by the n plaintext
\* bytes; unlock succeeds exactly when the primitive opens 16 zero bytes ||
\* mac || ciphertext, and then puts out bytes 32..n+31 of the opened buffer;
\* and unlock of what lock produced puts out the plaintext, for every n >= 0.
C19_PaddedSecretbox ==
    alg = "XSalsa20_Poly1305" =>
        /\ (sealed.op = "lock") =>
              /\ sealed.mac = SubSeq(PaddedBox, SecretboxPad - MacSize + 1, SecretboxPad)
              /\ sealed.ct = SubSeq(PaddedBox, SecretboxPad + 1, SecretboxPad + Len(plain))
              /\ Len(PaddedBox) = Len(plain) + SecretboxPad
        /\ (call.op = "unlock" /\ pc = "unlocked") =>
              /\ ret.ok = (PaddedOpen.ret = 0)
              /\ ret.ok => ReadCells(mem, ret.out.data, ret.out.size)
                             = SubSeq(PaddedOpen.m, SecretboxPad + 1, SecretboxPad + Len(call.ct))
              /\ (UnlockOfSealed /\ sealed.op = "lock") =>
                    /\ ret.ok
                    /\ ReadCells(mem, ret.out.data, ret.out.size) = plain

\* XSalsa20_Poly1305 unlocked what lock made of a plaintext of the greatest
\* length, to another place than the ciphertext's.
C19_Witness ==
    /\ alg = "XSalsa20_Poly1305"
    /\ sealed.op = "lock"
    /\ UnlockOfSealed
    /\ pc = "unlocked" /\ ret.ok
    /\ Len(plain) = MaxLen
    /\ call.buf.data # call.at
    /\ ReadCells(mem, ret.out.data, ret.out.size) = plain

\* XSalsa20_Poly1305 locked and unlocked the empty plaintext.
C19_WitnessEmpty ==
    /\ alg = "XSalsa20_Poly1305"
    /\ sealed.op = "lock"
    /\ UnlockOfSealed
    /\ pc = "unlocked" /\ ret.ok
    /\ Len(plain) = 0

\* What lock and the last unlock do when they are given no additional data,
\* everything else being what it was.
LockWithoutAD ==
    lock(alg, ndebug, InitMem(plain), key, nonce, SrcAt, Len(plain), <<>>, sealed.at)
MemAsLocked ==
    lock(alg, ndebug, InitMem(plain), key, nonce, SrcAt, Len(plain), sealed.ad, sealed.at).mem
UnlockWithoutAD ==
    unlock(alg, ndebug, memcpy(MemAsLocked, sealed.at, call.ct), call.key, call.nonce,
           call.mac, sealed.at, Len(call.ct), <<>>, call.buf.data)

\* C20: XSalsa20_Poly1305 does not support additional data.  In a debug build
\* lock and unlock with non-empty additional data stop at an assertion; in a
\* build with NDEBUG the additional data is ignored: the mac and ciphertext
\* of lock, and the result and output of unlock, are those obtained with
\* empty additional data.
C20_AdditionalDataUnsupported ==
    alg = "XSalsa20_Poly1305" =>
        /\ (call.op \in {"lock", "unlock"} /\ call.ad # <<>> /\ ~ndebug) => pc = "aborted"
        /\ (call.op \in {"lock", "unlock"} /\ call.ad # <<>> /\ ndebug) => pc # "aborted"
        /\ (sealed.op = "lock" /\ ndebug) =>
              /\ sealed.mac = LockWithoutAD.mac
              /\ sealed.ct = ReadCells(LockWithoutAD.mem, sealed.at, Len(plain))
        /\ (sealed.op = "lock" /\ call.op = "unlock" /\ ndebug) =>
              /\ ret.ok = UnlockWithoutAD.ret
              /\ mem = UnlockWithoutAD.mem

\* In a build with NDEBUG, XSalsa20_Poly1305 locked a plaintext with
\* additional data and unlocked it with other additional data.
C20_Witness ==
    /\ alg = "XSalsa20_Poly1305"
    /\ ndebug
    /\ sealed.op = "lock" /\ sealed.ad # <<>>
    /\ UnlockOfSealed /\ call.ad = <<>>
    /\ Len(plain) = MaxLen
    /\ pc = "unlocked" /\ ret.ok

\* In a debug build, unlock with additional data stopped at the assertion.
C20_WitnessDebug ==
    /\ alg = "XSalsa20_Poly1305"
    /\ ~ndebug
    /\ call.op = "unlock" /\ call.ad # <<>>
    /\ pc = "aborted"

\* A keyed BLAKE3 call was made: mac_builder(key) or createMAC(msg, key).
Blake3MacBuilt == hashAlg.name = "BLAKE3" /\ hashBuilder.keyed
Blake3MacCreated == hashAlg.name = "BLAKE3" /\ pc \in {"mac_created", "terminated"}

\* C21: BLAKE3 keyed MACs require a key of exactly 32 bytes: createMAC and
\* mac_builder given a key of any other size raise std::invalid_argument to
\* the caller, with no hasher initialised and no hash produced; with a
\* 32-byte key they never raise.
C21_Blake3KeySize ==
    /\ Blake3MacBuilt =>
          IF Len(hashKey) # Blake3KeySize
          THEN /\ pc = "hash_thrown"
               /\ hashBuilder.outcome = "invalid_argument"
               /\ hashBuilder.ctx = <<>>
               /\ hashOut = <<>>
          ELSE pc \in {"hashing", "hashed"} /\ hashBuilder.outcome = "constructed"
    /\ Blake3MacCreated =>
          IF Len(hashKey) # Blake3KeySize
          THEN pc # "terminated" /\ hashOut = <<>>
          ELSE pc = "mac_created" /\ Len(hashOut) = hashAlg.hash_size

\* What the code does: the mac_builder half as stated; createMAC with a key
\* of another size ends the program in std::terminate, no hash produced.
C21_Blake3KeySizeObserved ==
    /\ Blake3MacBuilt =>
          IF Len(hashKey) # Blake3KeySize
          THEN /\ pc = "hash_thrown"
               /\ hashBuilder.outcome = "invalid_argument"
               /\ hashBuilder.ctx = <<>>
               /\ hashOut = <<>>
          ELSE pc \in {"hashing", "hashed"} /\ hashBuilder.outcome = "constructed"
    /\ Blake3MacCreated =>
          IF Len(hashKey) # Blake3KeySize
          THEN pc = "terminated" /\ hashOut = <<>>
          ELSE pc = "mac_created" /\ Len(hashOut) = hashAlg.hash_size

\* createMAC of BLAKE3 was given a 16-byte key.
C21_Witness ==
    /\ Blake3MacCreated
    /\ Len(hashKey) = 16
    /\ pc = "terminated"

\* The bytes randomize was given, and the bytes of memory around them.
RandInside == {a \in 1..RandMemSize : a >= RandDst /\ a < RandDst + rand.size}
RandOutside == (1..RandMemSize) \ RandInside

\* C22: randomize(dst, size) terminates after overwriting every one of the
\* size bytes at dst and no byte outside that range, for every size, on the
\* arc4random path and on the std::random_device path: it never stops at an
\* assertion, never writes a byte outside the range, and once it has been
\* entered it is on its way to returning with every byte written.
C22_RandomizeExact ==
    rand.path # "none" =>
        /\ pc \notin {"aborted", "rand_overrun"}
        /\ \A a \in RandOutside : rand.mem[a] = 0
        /\ pc = "rand_returned" => \A a \in RandInside : rand.mem[a] = 1

\* What the code does: the claim holds on the arc4random path and, on the
\* std::random_device path, for the sizes that are multiples of
\* sizeof(unsigned); for any other size a debug build stops at the
\* assertion and a build with NDEBUG steps over `end`, writes past the
\* buffer and never returns.
C22_RandomizeExactForWords ==
    rand.path # "none" =>
        IF rand.path = "arc4random" \/ rand.size % WordSize = 0
        THEN /\ pc \notin {"aborted", "rand_overrun"}
             /\ \A a \in RandOutside : rand.mem[a] = 0
             /\ pc = "rand_returned" => \A a \in RandInside : rand.mem[a] = 1
        ELSE /\ pc # "rand_returned"
             /\ ~rand.ndebug => pc \in {"rand_start", "aborted"}
             /\ pc = "rand_overrun" => \E a \in RandOutside : rand.mem[a] = 1

\* In a build with NDEBUG the std::random_device loop, given 6 bytes, has
\* written past the end of the buffer.
C22_Witness ==
    /\ rand.path = "random_device"
    /\ rand.ndebug
    /\ rand.size = 6
    /\ rand.mem[RandDst + rand.size] = 1
    /\ rand.i > RandDst + rand.size

\* The last call was unbox<OutputSize>, and its input was the boxed output
\* of box, under the key and nonce box was given / it returned.
UnboxArrayCalled == call.op = "unbox_array"
BoxedAuthentic ==
    /\ call.key = key /\ call.nonce = nonce
    /\ call.mac = sealed.mac /\ call.ct = sealed.ct

\* C23: unbox<OutputSize>(nonce, boxed, output) returns true if and only if
\* the boxed input authenticated and its plaintext is exactly OutputSize
\* bytes long; it returns false for every input that fails authentication or
\* is shorter than 16 bytes, for every OutputSize including 0.
C23_UnboxArrayResult ==
    (UnboxArrayCalled /\ pc = "unboxed") =>
        ret.ok = (BoxedAuthentic /\ Len(plain) = call.buf.size)

\* What the code does: the result is true exactly when the size of what the
\* output_bytes form returned equals OutputSize; that is the claim for
\* OutputSize > 0 and, for OutputSize = 0, true for every input that makes
\* the output_bytes form return {nullptr, 0}: one shorter than 16 bytes or
\* one that fails authentication.
C23_UnboxArrayResultNonEmpty ==
    (UnboxArrayCalled /\ pc = "unboxed") =>
        IF call.buf.size > 0
        THEN ret.ok = (BoxedAuthentic /\ Len(plain) = call.buf.size)
        ELSE ret.ok = (~BoxedAuthentic \/ Len(plain) = 0)

\* unbox<0> was given 15 bytes and returned true.
C23_Witness ==
    /\ UnboxArrayCalled /\ pc = "unboxed"
    /\ call.buf.size = 0
    /\ Len(call.mac) = MacSize - 1
    /\ ret.ok

\* A step is a call of box, unbox or unbox<OutputSize> of an encryption_key.
\* MemBeforeCall is the memory the call starts on (for unbox, with the boxed
\* input in its place) and OutsideBuffer the addresses outside the output
\* buffer the call was given.
BoxOrUnboxStep ==
    /\ pc \in {"start", "boxed"}
    /\ call'.op \in {"box", "unbox", "unbox_array"}
MemBeforeCall ==
    IF call'.op = "box" THEN mem ELSE memcpy(mem, call'.at, call'.mac \o call'.ct)
OutsideBuffer ==
    {a \in 1..MemSize : a < call'.buf.data \/ a >= call'.buf.data + call'.buf.size}
WritesInsideBuffer ==
    /\ pc' # "overflow"
    /\ \A a \in OutsideBuffer : mem'[a] = MemBeforeCall[a]
    /\ pc' \in {"boxed", "unboxed"} => ret'.out.size <= call'.buf.size

\* C24: box and unbox never write outside the caller's output buffer: a
\* buffer that is too small is rejected before any byte is written, and the
\* size they return is never larger than the buffer's.
C24_NoWriteOutsideBuffer ==
    [][BoxOrUnboxStep => WritesInsideBuffer]_vars

\* What the code does: so it is in a debug build, where the assertion of
\* shrunk_to stops the call; in a build with NDEBUG the assertion is gone
\* and a buffer that is too small is written past.
C24_NoWriteOutsideBufferDebug ==
    [][(BoxOrUnboxStep /\ ~ndebug) => WritesInsideBuffer]_vars

\* A build with NDEBUG boxed into a buffer a byte too small, and the last
\* byte of the ciphertext lies past the buffer.
C24_Witness ==
    /\ ndebug
    /\ call.op = "box"
    /\ pc = "overflow"
    /\ call.buf.size = Len(plain) + MacSize - 1
    /\ mem[call.buf.data + call.buf.size] # FillerCell

\* C25: the work area argon2::create allocates is exactly NBlocks x 1024
\* bytes, the size implied by the nb_blocks = NBlocks it passes to the
\* primitive, for every NBlocks >= 8: the product NBlocks * 1024 never wraps
\* modulo 2^32.
C25_WorkAreaSize ==
    \A i \in 1..Len(argonCalls) :
        argonCalls[i].invoked =>
            argonCalls[i].work_area_size = crypto_argon2_work_area_size(argonTemplate.NBlocks)

\* What the code does: so it is while NBlocks < 2^22; from 2^22 on the
\* product wraps, and the work area is smaller than what the primitive
\* writes.
C25_WorkAreaSizeBelowWrap ==
    \A i \in 1..Len(argonCalls) :
        argonCalls[i].invoked =>
            IF argonTemplate.NBlocks < 4194304
            THEN argonCalls[i].work_area_size
                     = crypto_argon2_work_area_size(argonTemplate.NBlocks)
            ELSE /\ argonCalls[i].work_area_size[3] = 0
                 /\ crypto_argon2_work_area_size(argonTemplate.NBlocks)[3] = 1

\* argon2<Argon2i, 64, 4194305, 3>::create returned a hash on a work area
\* of 1024 bytes.
C25_Witness ==
    /\ argonTemplate.NBlocks = 4194305
    /\ Len(argonCalls) > 0
    /\ argonCalls[1].outcome = "returned"
    /\ argonCalls[1].work_area_size = <<1024, 0, 0, 0>>

\* The ranges [src, src + n) and [dst, dst + n) overlap without being
\* identical.
Overlapping(src, dst, n) == src # dst /\ src < dst + n /\ dst < src + n

\* A place for the output that is apart from the input at `at`.
ApartFrom(at) == IF at = FarAt THEN 1 ELSE FarAt

\* A step is a call of lock / of unlock; the memory unlock starts on has
\* the ciphertext it is given in the place lock wrote to.
LockStep == pc = "start" /\ call'.op = "lock"
UnlockStep == pc = "locked" /\ call'.op = "unlock"
MemBeforeUnlock == memcpy(mem, sealed.at, call'.ct)

\* The step gives what the same call gives with its output apart from its
\* input, and fixOverlap moved the input exactly when the ranges overlap
\* without being identical.
LockAsApart ==
    \E apart \in {lock(alg, ndebug, mem, key, nonce, SrcAt, Len(plain), call'.ad,
                       ApartFrom(SrcAt))} :
        /\ (pc' = "aborted") = apart.aborted
        /\ pc' = "locked" =>
              /\ sealed'.mac = apart.mac
              /\ sealed'.ct = ReadCells(apart.mem, ApartFrom(SrcAt), Len(plain))
              /\ \E f \in {fixOverlap(mem, SrcAt, Len(plain), sealed'.at)} :
                    IF Overlapping(SrcAt, sealed'.at, Len(plain))
                    THEN /\ f.src = sealed'.at
                         /\ ReadCells(f.mem, sealed'.at, Len(plain)) = plain
                    ELSE f = [mem |-> mem, src |-> SrcAt]
UnlockAsApart ==
    \E pre \in {MemBeforeUnlock} :
      \E apart \in {unlock(alg, ndebug, pre, call'.key, call'.nonce, call'.mac, sealed.at,
                           Len(call'.ct), call'.ad, ApartFrom(sealed.at))} :
        /\ (pc' = "aborted") = apart.aborted
        /\ ret'.ok = (apart.ret /\ ~apart.aborted)
        /\ ret'.ok => ReadCells(mem', call'.buf.data, Len(call'.ct))
                        = ReadCells(apart.mem, ApartFrom(sealed.at), Len(call'.ct))
        /\ \E f \in {fixOverlap(pre, sealed.at, Len(call'.ct), call'.buf.data)} :
              IF Overlapping(sealed.at, call'.buf.data, Len(call'.ct))
              THEN /\ f.src = call'.buf.data
                   /\ ReadCells(f.mem, call'.buf.data, Len(call'.ct)) = call'.ct
              ELSE f = [mem |-> pre, src |-> sealed.at]

\* C26: lock and unlock give the same mac / result and the same output
\* bytes whatever the relative position of the input and output buffers.
\* When the ranges overlap without being identical fixOverlap moves the n
\* input bytes to dst and the operation runs in place on dst; when they are
\* identical or apart, or n = 0, no byte is moved and the input pointer is
\* unchanged.
C26_PositionIndependent ==
    [][(LockStep => LockAsApart) /\ (UnlockStep => UnlockAsApart)]_vars

\* lock wrote the ciphertext a byte after the plaintext, over it, and unlock
\* wrote the plaintext a byte after the ciphertext, over it.
C26_Witness ==
    /\ sealed.op = "lock" /\ sealed.at = SrcAt + 1
    /\ UnlockOfSealed /\ call.ad = sealed.ad
    /\ call.buf.data = sealed.at + 1
    /\ Len(plain) = MaxLen
    /\ pc = "unlocked" /\ ret.ok
    /\ ReadCells(mem, call.buf.data, Len(plain)) = plain

\* C27: a key_pair is 64 bytes laid out as seed || public key: get_seed()
\* is bytes 0..31 and get_public_key() bytes 32..63 of the object; for every
\* seed s, key_pair(s).get_seed() equals s (the constructor's assertion
\* always holds), and seed::get_public_key() and seed::sign(msg) return what
\* key_pair(s).get_public_key() and key_pair(s).sign(msg) return.
C27_KeyPairLayout ==
    /\ sigPair # <<>> =>
          /\ Len(sigPair) = 2 * SeedSize
          /\ key_pair_get_seed(sigPair) = [x \in 1..SeedSize |-> sigPair[x]]
          /\ key_pair_get_public_key(sigPair) = [x \in 1..SeedSize |-> sigPair[SeedSize + x]]
          /\ key_pair_get_public_key(sigPair)
                = generate_fn(sigAlg, key_pair_get_seed(sigPair)).public_key
    /\ sigSeed.sk # <<>> =>
          /\ pc # "aborted"
          /\ key_pair_get_seed(sigPair) = sigSeed.sk
          /\ sigSeed.after = sigSeed.sk
          /\ sigSeed.pub # <<>> => sigSeed.pub = key_pair_get_public_key(sigPair)
          /\ sigSeed.sig # <<>> => sigSeed.sig = sigSig

\* An Ed25519 pair was made from a seed and signed a message; the seed gave
\* its public key and signed the same message.
C27_Witness ==
    /\ sigAlg = "Ed25519"
    /\ sigSeed.sk \in Seeds
    /\ pc = "signed"
    /\ sigMsg = <<1, 2>>
    /\ sigSeed.pub = key_pair_get_public_key(sigPair)
    /\ sigSeed.sig = sigSig
    /\ Len(sigSeed.sig) = SignatureSize
====
